---- MODULE Spec2Model ----
(***************************************************************************)
(* uhpm-core: the package manager application service (install, remove,    *)
(* switch), the installation ledger (DatabaseRepository), the remote       *)
(* repository's archive download and the install-list materialization.     *)
(*                                                                         *)
(* The ports (EventPublisher, CacheManager, NetworkOperations, the         *)
(* PackageRepository the manager is instantiated with) are traits: a call  *)
(* of a port either succeeds or returns an error, chosen by the            *)
(* environment at the call.  The repository serves Package values whose    *)
(* installed/active flags are those of the ledger's packages table.        *)
(***************************************************************************)
EXTENDS Integers, Sequences, FiniteSets, TLC

VARIABLES
    packages,        \* ledger table packages: rows [id, installed, active]
    dependencies,    \* ledger table dependencies: rows [package_id, dependency_name, version_constraint]
    installations,   \* ledger table installations: rows [installation_id, package_id, active]
    installed_files, \* ledger table installed_files: rows [installation_id, file_path]
    symlinks,        \* ledger table symlinks: rows [installation_id, seq, target_path]
    paths,           \* materialized install-list targets that exist on disk
    cache,           \* CacheManager: archive bytes by package reference ("none" when absent)
    published,       \* events published by the top-level call in progress (or the last one)
    pc,              \* position of the package manager
    frame,           \* locals of the install/remove in progress
    sw,              \* locals of the switch in progress
    call,            \* the top-level call in progress (or the last one) and what it has invoked
    result,          \* what the last top-level call returned
    snap,            \* ledger and paths when the top-level call started
    base,            \* ledger and paths before the install that a remove follows
    dl,              \* the last RemotePackagesRepository::download_package call
    writes,          \* writes to the ledger and the file system made so far from outside the manager
    tx,              \* the DatabaseRepository transaction in progress (or the last one)
    store,           \* package store: the instlist file of each extracted package
    fs,              \* file system under the install-list targets: what is at each path
    mat,             \* the last materialization call of PackageFilesRepository
    resolution,      \* the last dependency resolution: the package and what was resolved
    tasks,           \* the install calls that run concurrently on one PackageManager
    remote,          \* RemotePackagesRepository: its cache entries, the server, its last call
    answer           \* the last call of a function that keeps no state: inputs and result

vars == <<packages, dependencies, installations, installed_files, symlinks, paths,
          cache, published, pc, frame, sw, call, result, snap, base, dl, writes, tx,
          store, fs, mat, resolution, tasks, remote, answer>>

ledgerVars == <<packages, dependencies, installations, installed_files, symlinks>>
managerVars == <<published, pc, frame, sw, call, result, snap, base>>

\* the state of the components the package manager does not drive
filesVars == <<store, fs, mat>>
auxVars == <<tx, filesVars, resolution, tasks, remote, answer>>

----------------------------------------------------------------------------
(* The universe of the model *)

\* writes to the ledger and the file system from outside the manager in one behaviour
MaxWrites == 2

Names == {"app", "libx"}
Versions == {1, 2}
InstallationIds == {"u1", "u2"}
Bytes == {"b0", "b1"}

\* PackageReference {name, version}
PackageReference == [name : Names, version : Versions]

Ref(n, v) == [name |-> n, version |-> v]

\* the packages that exist: app 1 and 2, libx 1
Catalog == {r \in PackageReference : r.name = "libx" => r.version = 1}

\* PackageId "{name}@{version}": the primary key, one per (name, version)
PackageId(name, version) == <<name, version>>

\* PackageReference::id
RefId(r) == PackageId(r.name, r.version)

PackageIds == {RefId(r) : r \in PackageReference}

----------------------------------------------------------------------------
(* Results *)

Ok(v) == [ok |-> TRUE, err |-> "", val |-> v]
Err(e) == [ok |-> FALSE, err |-> e, val |-> <<>>]

----------------------------------------------------------------------------
(* Package metadata (meta.toml): a dependency is a name and the set of     *)
(* versions its VersionReq matches.                                        *)

\* the dependencies array of a package's meta.toml, parsed
MetaDependencies(name, version) ==
    IF name = "app"
    THEN {[name |-> "libx", constraint |-> IF version = 1 THEN {1, 2} ELSE {2}]}
    ELSE {}

\* Dependency::matches_version
matches_version(dependency, version) == version \in dependency.constraint

\* sha256 of archive bytes
Sha256(bytes) == IF bytes = "b0" THEN "h0" ELSE "h1"

\* the checksum a package's remote metadata declares (the digest of the genuine archive)
DeclaredChecksum(name, version) == [algorithm |-> "sha256", hash |-> "h0"]

\* Package::new
PackageNew(id, name, version, checksum, deps, installed, active) ==
    [id |-> id, name |-> name, version |-> version, checksum |-> checksum,
     dependencies |-> deps, installed |-> installed, active |-> active]

\* PackageFactory::create: a package that is neither installed nor active
PackageFactoryCreate(name, version) ==
    PackageNew(PackageId(name, version), name, version, DeclaredChecksum(name, version),
               MetaDependencies(name, version), FALSE, FALSE)

\* Package::is_installed
is_installed(package) == package.installed

\* a getter that reads the wrong flag
is_active_reads_installed(package) == package.installed

\* Package::is_active
is_active(package) == package.active

\* Package::set_installed
set_installed(package, installed) == [package EXCEPT !.installed = installed]

\* Package::set_active
set_active(package, active) == [package EXCEPT !.active = active]

\* PackageReference::from_package
from_package(package) == Ref(package.name, package.version)

----------------------------------------------------------------------------
(* Installation entity *)

\* the install-list target of a package: every version of a name installs to the same path
InstlistTarget(name) == "/home/u/bin/" \o name

\* Installation::new
InstallationNew(id, package_id, files, links, active) ==
    [id |-> id, package_id |-> package_id, installed_files |-> files,
     symlinks |-> links, active |-> active]

\* InstallationFactory::create: inactive, no files, no symlinks
InstallationFactoryCreate(id, package_id) ==
    InstallationNew(id, package_id, {}, <<>>, FALSE)

\* Installation::add_installed_file
add_installed_file(installation, path) ==
    [installation EXCEPT !.installed_files = @ \cup {path}]

\* Installation::add_symlink
add_symlink(installation, target) ==
    [installation EXCEPT !.symlinks = Append(@, target)]

\* Installation::activate
activate(installation) == [installation EXCEPT !.active = TRUE]

\* Installation::deactivate
deactivate(installation) == [installation EXCEPT !.active = FALSE]

----------------------------------------------------------------------------
(* Installation ledger (DatabaseRepository) *)

\* the packages row save_package writes
PackageRow(package) ==
    [id |-> package.id, name |-> package.name, version |-> package.version,
     installed |-> package.installed, active |-> package.active]

\* save_dependencies: DELETE the package's rows, INSERT one row per dependency
save_dependencies(package_id, deps) ==
    {row \in dependencies : row.package_id # package_id}
        \cup {[package_id |-> package_id, dependency_name |-> d.name,
               version_constraint |-> d.constraint] : d \in deps}

\* DatabaseRepository::save_package: INSERT OR REPLACE the row, rewrite the dependencies
save_package(package) ==
    /\ packages' = {row \in packages : row.id # package.id} \cup {PackageRow(package)}
    /\ dependencies' = save_dependencies(package.id, package.dependencies)

\* load_dependencies
load_dependencies(package_id) ==
    {[name |-> row.dependency_name, constraint |-> row.version_constraint] :
        row \in {x \in dependencies : x.package_id = package_id}}

\* the Package DatabaseRepository::get_package builds from a packages row
PackageFromRow(row) ==
    PackageNew(PackageId(row.name, row.version), row.name, row.version,
               DeclaredChecksum(row.name, row.version), load_dependencies(row.id),
               row.installed, row.active)

\* save_installation_files: DELETE the installation's rows, INSERT one row per file
save_installation_files(installation_id, files) ==
    {row \in installed_files : row.installation_id # installation_id}
        \cup {[installation_id |-> installation_id, package_id |-> "", file_path |-> f] :
                f \in files}

\* save_symlinks: DELETE the installation's rows, INSERT one row per symlink, in order
save_symlinks(installation_id, links) ==
    {row \in symlinks : row.installation_id # installation_id}
        \cup {[installation_id |-> installation_id, seq |-> i, target_path |-> links[i]] :
                i \in 1..Len(links)}

\* DatabaseRepository::save_installation: INSERT OR REPLACE the row by installation_id,
\* rewrite its file and symlink rows; nothing else is read or checked
save_installation(installation) ==
    /\ installations' =
          {row \in installations : row.installation_id # installation.id}
              \cup {[installation_id |-> installation.id,
                     package_id |-> installation.package_id,
                     active |-> installation.active]}
    /\ installed_files' = save_installation_files(installation.id, installation.installed_files)
    /\ symlinks' = save_symlinks(installation.id, installation.symlinks)

Ledger == <<packages, dependencies, installations, installed_files, symlinks>>

----------------------------------------------------------------------------
(* PackageRepository port, as the manager calls it *)

\* get_package: the package the repository holds for the reference, with its flags
RepositoryGetPackage(r) ==
    LET rows == {row \in packages : row.id = RefId(r)}
    IN IF rows = {} THEN Err("PackageNotFound")
       ELSE Ok(PackageFromRow(CHOOSE row \in rows : TRUE))

\* the packages of a set in the order search_packages lists them: by name, then version
RECURSIVE Listed(_)
Listed(S) ==
    IF S = {} THEN <<>>
    ELSE LET first == CHOOSE p \in S : \A q \in S :
                          \/ p.name = q.name /\ p.version <= q.version
                          \/ p.name = "app" /\ q.name # "app"
         IN <<first>> \o Listed(S \ {first})

\* search_packages(""): every package the repository holds
RepositorySearchPackages == Listed({PackageFromRow(row) : row \in packages})

\* get_package_versions(name): the versions held, ascending
RepositoryVersions(name) == {row.version : row \in {x \in packages : x.name = name}}

\* resolve_dependencies for one dependency: the highest version that matches, then
\* get_package of it; ResolutionError when no version matches
ResolveOne(dependency) ==
    LET ok == {v \in RepositoryVersions(dependency.name) : matches_version(dependency, v)}
    IN IF ok = {} THEN Err("ResolutionError")
       ELSE RepositoryGetPackage(Ref(dependency.name, CHOOSE v \in ok : \A w \in ok : w <= v))

\* resolve_dependencies: the dependencies in the given order, one package each,
\* the first failure returned
RECURSIVE ResolveDependencies(_)
ResolveDependencies(deps) ==
    IF deps = <<>> THEN Ok(<<>>)
    ELSE LET head == ResolveOne(Head(deps))
         IN IF ~head.ok THEN head
            ELSE LET rest == ResolveDependencies(Tail(deps))
                 IN IF ~rest.ok THEN rest ELSE Ok(<<head.val>> \o rest.val)

\* the orders in which a HashSet of dependencies may be iterated
Orderings(S) ==
    {q \in UNION {[1..n -> S] : n \in {Cardinality(S)}} :
        \A i, j \in 1..Cardinality(S) : i # j => q[i] # q[j]}

----------------------------------------------------------------------------
(* CacheManager port *)

\* has_package
has_package(r) == cache[r] # "none"

\* cache.put_package
put_package(c, r, data) == [c EXCEPT ![r] = data]

----------------------------------------------------------------------------
(* NetworkOperations port and RemotePackagesRepository::download_package *)

\* what network.get of an archive URL may return: an error, or the bytes the server serves
NetworkResponses == {Err("NetworkError")} \cup {Ok(b) : b \in Bytes}

\* RemotePackagesRepository::download_package(r) with the network answering net and
\* cache.put_package succeeding or not: the result, the cache afterwards, the bytes served
download_package(r, net, put_ok) ==
    IF cache[r] # "none"
    THEN [res |-> Ok(cache[r]), cache |-> cache, served |-> "none"]
    ELSE IF ~net.ok
    THEN [res |-> net, cache |-> cache, served |-> "none"]
    ELSE IF ~put_ok
    THEN [res |-> Err("CacheError"), cache |-> cache, served |-> net.val]
    ELSE [res |-> Ok(net.val), cache |-> put_package(cache, r, net.val), served |-> net.val]

\* the record of a download_package call
Downloaded(r, d) ==
    [made |-> TRUE, ref |-> r, served |-> d.served, res |-> d.res,
     has_package_after |-> d.cache[r] # "none"]

NoDownload ==
    [made |-> FALSE, ref |-> Ref("app", 1), served |-> "none", res |-> Err(""),
     has_package_after |-> FALSE]

----------------------------------------------------------------------------
(* Events *)

Event(type, r) == [type |-> type, ref |-> r]

----------------------------------------------------------------------------
(* PackageManager: install, remove, switch *)

NoCall == [op |-> "none", ref |-> Ref("app", 1), invoked |-> {},
           active |-> FALSE, available |-> FALSE, installed_versions |-> {},
           active_versions |-> {}, repeat |-> FALSE, follows |-> FALSE]
NoResult == [done |-> FALSE, ok |-> FALSE, err |-> "", val |-> <<>>]
NoFrame == [ref |-> Ref("app", 1)]
NoSwitch == [active |-> FALSE]

Returned(res) == [done |-> TRUE, ok |-> res.ok, err |-> res.err, val |-> res.val]

\* whether r's package is active, as the ledger holds it
IsActive(r) == \E row \in packages : row.id = RefId(r) /\ row.active

\* a top-level call starts: what it is, and what preceded it
Called(op, r) ==
    [op |-> op, ref |-> r, invoked |-> {},
     active |-> IsActive(r),
     available |-> \E row \in packages : row.id = RefId(r),
     installed_versions |-> {row.version : row \in {x \in packages :
                                x.name = r.name /\ x.installed}},
     active_versions |-> {row.version : row \in {x \in packages :
                             x.name = r.name /\ x.installed /\ x.active}},
     repeat |-> (op = "install" /\ call.op = "install" /\ call.ref = r /\ result.ok),
     follows |-> (op = "remove" /\ call.op = "install" /\ call.ref = r /\ result.ok)]

Snapshot == <<Ledger, paths>>

Invoke(c, what) == [c EXCEPT !.invoked = @ \cup {what}]

\* install returns res: to switch when switch called it, else to the caller
InstallReturns(c, res) ==
    IF sw.active
    THEN IF res.ok
         THEN /\ pc' = "s_finish"
              /\ sw' = [sw EXCEPT !.install_result = res.val]
              /\ result' = result
              /\ call' = Invoke(c, "install:ok")
         ELSE /\ pc' = "idle"
              /\ sw' = NoSwitch
              /\ result' = Returned(Err(res.err))
              /\ call' = Invoke(c, "install:err")
    ELSE /\ pc' = "idle"
         /\ sw' = sw
         /\ result' = Returned(res)
         /\ call' = c

\* remove returns res: to switch when switch called it, else to the caller
RemoveReturns(c, res) ==
    IF sw.active
    THEN IF res.ok
         THEN /\ pc' = "s_install"
              /\ sw' = [sw EXCEPT !.removal_result = res.val]
              /\ result' = result
              /\ call' = Invoke(c, "remove:ok")
         ELSE /\ pc' = "idle"
              /\ sw' = NoSwitch
              /\ result' = Returned(Err(res.err))
              /\ call' = Invoke(c, "remove:err")
    ELSE /\ pc' = "idle"
         /\ sw' = sw
         /\ result' = Returned(res)
         /\ call' = c

\* install, lines 59-63: publish InstallationStarted
InstallEnter(c, log, r) ==
    \E published_ok \in BOOLEAN :
        IF published_ok
        THEN /\ published' = Append(log, Event("InstallationStarted", r))
             /\ frame' = [ref |-> r]
             /\ pc' = "i_resolve"
             /\ call' = Invoke(c, "install")
             /\ result' = NoResult
             /\ sw' = sw
        ELSE /\ published' = log
             /\ frame' = NoFrame
             /\ InstallReturns(Invoke(c, "install"), Err("EventError"))

\* install called by the user
Install(r) ==
    /\ pc = "idle"
    /\ snap' = Snapshot
    /\ base' = Snapshot
    /\ dl' = NoDownload
    /\ InstallEnter(Called("install", r), <<>>, r)
    /\ UNCHANGED <<ledgerVars, paths, cache, writes>>
    /\ UNCHANGED auxVars

\* install, lines 65-73: get_package, resolve_dependencies, the list to download
InstallResolve ==
    /\ pc = "i_resolve"
    /\ LET got == RepositoryGetPackage(frame.ref)
       IN IF ~got.ok
          THEN /\ frame' = NoFrame
               /\ InstallReturns(call, got)
          ELSE \E order \in Orderings(got.val.dependencies) :
                  LET deps == ResolveDependencies(order)
                  IN IF ~deps.ok
                     THEN /\ frame' = NoFrame
                          /\ InstallReturns(call, deps)
                     ELSE /\ frame' = [ref |-> frame.ref, package |-> got.val,
                                       dependencies |-> deps.val,
                                       all_packages |-> <<got.val>> \o deps.val,
                                       next |-> 1]
                          /\ pc' = "i_download"
                          /\ UNCHANGED <<sw, result, call>>
    /\ UNCHANGED <<ledgerVars, paths, cache, published, snap, base, dl, writes>>
    /\ UNCHANGED auxVars

\* the port call of download_package_if_needed that fails, if one does (the network
\* fails by its response)
DownloadFailures ==
    {"none", "publish DownloadStarted", "repository put_package", "put_package",
     "publish DownloadCompleted"}

\* download_package_if_needed moves on to the next package of the list
NextPackage ==
    /\ frame' = [frame EXCEPT !.next = @ + 1]
    /\ pc' = IF frame.next + 1 > Len(frame.all_packages) THEN "i_install" ELSE "i_download"
    /\ UNCHANGED <<sw, result, call>>

\* install, lines 74-76, one turn of the loop: download_package_if_needed(pkg)
InstallDownload ==
    /\ pc = "i_download"
    /\ LET r == from_package(frame.all_packages[frame.next])
       IN IF has_package(r)
          THEN /\ NextPackage
               /\ UNCHANGED <<cache, published, dl>>
          ELSE \E fails \in DownloadFailures, net \in NetworkResponses :
                  LET d == download_package(r, net, fails # "repository put_package")
                      started == Append(published, Event("DownloadStarted", r))
                  IN IF fails = "publish DownloadStarted"
                     THEN /\ net = Err("NetworkError")
                          /\ frame' = NoFrame
                          /\ InstallReturns(call, Err("EventError"))
                          /\ UNCHANGED <<cache, published, dl>>
                     ELSE IF ~d.res.ok
                     THEN /\ net.ok \/ fails = "none"
                          /\ frame' = NoFrame
                          /\ InstallReturns(call, d.res)
                          /\ published' = started
                          /\ cache' = d.cache
                          /\ dl' = Downloaded(r, d)
                     ELSE IF fails = "put_package"
                     THEN /\ frame' = NoFrame
                          /\ InstallReturns(call, Err("CacheError"))
                          /\ published' = started
                          /\ cache' = d.cache
                          /\ dl' = Downloaded(r, d)
                     ELSE IF fails = "publish DownloadCompleted"
                     THEN /\ frame' = NoFrame
                          /\ InstallReturns(call, Err("EventError"))
                          /\ published' = started
                          /\ cache' = put_package(d.cache, r, d.res.val)
                          /\ dl' = Downloaded(r, d)
                     ELSE /\ NextPackage
                          /\ published' = Append(started, Event("DownloadCompleted", r))
                          /\ cache' = put_package(d.cache, r, d.res.val)
                          /\ dl' = Downloaded(r, d)
    /\ UNCHANGED <<ledgerVars, paths, snap, base, writes>>
    /\ UNCHANGED auxVars

\* install_single_package: an empty InstallResult
install_single_package(package) ==
    Ok([package_id |-> package.id, installed_files |-> <<>>, symlinks_created |-> 0])

\* an install that records one more symlink row each time it runs
InstallWritesAppendRow(pkgs) ==
    /\ symlinks' = symlinks \cup
          {[installation_id |-> "u1", seq |-> Cardinality(symlinks) + 1,
            target_path |-> InstlistTarget(pkgs[Len(pkgs)].name)]}
    /\ UNCHANGED <<packages, dependencies, installations, installed_files, paths>>

\* an install that flags its packages installed in the ledger, which remove never undoes
InstallWritesInstalledFlag(pkgs) ==
    /\ packages' = {IF \E i \in 1..Len(pkgs) : pkgs[i].id = row.id
                    THEN [row EXCEPT !.installed = TRUE] ELSE row : row \in packages}
    /\ UNCHANGED <<dependencies, installations, installed_files, symlinks, paths>>

\* what install_single_package writes for the packages of an install, the main
\* package last: nothing, in the ledger and on disk
InstallWrites(pkgs) == UNCHANGED <<ledgerVars, paths>>

\* install, lines 78-95: install_single_package of each dependency, then of the
\* package; the InstallResult is the sum
RECURSIVE InstallAll(_, _)
InstallAll(pkgs, acc) ==
    IF pkgs = <<>> THEN Ok(acc)
    ELSE LET one == install_single_package(Head(pkgs))
         IN IF ~one.ok THEN one
            ELSE InstallAll(Tail(pkgs),
                            [acc EXCEPT !.installed_files = @ \o one.val.installed_files,
                                        !.symlinks_created = @ + one.val.symlinks_created])

InstallPackages ==
    /\ pc = "i_install"
    /\ LET res == InstallAll(frame.dependencies \o <<frame.package>>,
                             [package_id |-> frame.package.id, installed_files |-> <<>>,
                              symlinks_created |-> 0])
           c == Invoke(call, "install_single_package")
       IN IF ~res.ok
          THEN /\ frame' = NoFrame
               /\ InstallReturns(c, res)
          ELSE /\ frame' = [ref |-> frame.ref, package |-> frame.package,
                            install_result |-> res.val]
               /\ pc' = "i_complete"
               /\ call' = c
               /\ UNCHANGED <<sw, result>>
    /\ InstallWrites(frame.dependencies \o <<frame.package>>)
    /\ UNCHANGED <<cache, published, snap, base, dl, writes>>
    /\ UNCHANGED auxVars

\* an install that counts InstallationCompleted as published before the publisher answers
InstallCompleteEager ==
    /\ pc = "i_complete"
    /\ published' = Append(published, Event("InstallationCompleted", frame.ref))
    /\ \E completed_ok \in BOOLEAN :
          IF completed_ok
          THEN InstallReturns(call, Ok(frame.install_result))
          ELSE InstallReturns(call, Err("EventError"))
    /\ frame' = NoFrame
    /\ UNCHANGED <<ledgerVars, paths, cache, snap, base, dl, writes>>
    /\ UNCHANGED auxVars

\* install, lines 97-101: publish InstallationCompleted, return the InstallResult
InstallComplete ==
    /\ pc = "i_complete"
    /\ \E completed_ok \in BOOLEAN :
          IF completed_ok
          THEN /\ published' = Append(published, Event("InstallationCompleted", frame.ref))
               /\ InstallReturns(call, Ok(frame.install_result))
          ELSE /\ published' = published
               /\ InstallReturns(call, Err("EventError"))
    /\ frame' = NoFrame
    /\ UNCHANGED <<ledgerVars, paths, cache, snap, base, dl, writes>>
    /\ UNCHANGED auxVars

\* remove, lines 105-109: publish RemoveStarted
RemoveEnter(c, log, r) ==
    \E published_ok \in BOOLEAN :
        IF published_ok
        THEN /\ published' = Append(log, Event("RemoveStarted", r))
             /\ frame' = [ref |-> r]
             /\ pc' = "r_check"
             /\ call' = Invoke(c, "remove")
             /\ result' = NoResult
             /\ sw' = sw
        ELSE /\ published' = log
             /\ frame' = NoFrame
             /\ RemoveReturns(Invoke(c, "remove"), Err("EventError"))

\* remove called by the user
Remove(r) ==
    /\ pc = "idle"
    /\ snap' = Snapshot
    /\ base' = IF call.op = "install" /\ call.ref = r /\ result.ok THEN snap ELSE Snapshot
    /\ dl' = NoDownload
    /\ RemoveEnter(Called("remove", r), <<>>, r)
    /\ UNCHANGED <<ledgerVars, paths, cache, writes>>
    /\ UNCHANGED auxVars

\* remove_single_package: an empty RemovalResult
remove_single_package(package) ==
    Ok([package_id |-> package.id, removed_files |-> 0, freed_space |-> 0])

\* what remove writes: nothing, in the ledger and on disk
RemoveWrites == UNCHANGED <<ledgerVars, paths>>

\* remove, lines 111-117: get_package, refuse an active package, remove_single_package
RemoveCheck ==
    /\ pc = "r_check"
    /\ LET got == RepositoryGetPackage(frame.ref)
       IN IF ~got.ok
          THEN /\ frame' = NoFrame
               /\ RemoveReturns(call, got)
          ELSE IF is_active(got.val)
          THEN /\ frame' = NoFrame
               /\ RemoveReturns(call, Err("PackageIsActive"))
          ELSE LET res == remove_single_package(got.val)
                   c == Invoke(call, "remove_single_package")
               IN IF ~res.ok
                  THEN /\ frame' = NoFrame
                       /\ RemoveReturns(c, res)
                  ELSE /\ frame' = [ref |-> frame.ref, removal_result |-> res.val]
                       /\ pc' = "r_complete"
                       /\ call' = c
                       /\ UNCHANGED <<sw, result>>
    /\ RemoveWrites
    /\ UNCHANGED <<cache, published, snap, base, dl, writes>>
    /\ UNCHANGED auxVars

\* remove, lines 119-125: publish RemoveCompleted, return the RemovalResult
RemoveComplete ==
    /\ pc = "r_complete"
    /\ \E completed_ok \in BOOLEAN :
          IF completed_ok
          THEN /\ published' = Append(published, Event("RemoveCompleted", frame.ref))
               /\ RemoveReturns(call, Ok(frame.removal_result))
          ELSE /\ published' = published
               /\ RemoveReturns(call, Err("EventError"))
    /\ frame' = NoFrame
    /\ UNCHANGED <<ledgerVars, paths, cache, snap, base, dl, writes>>
    /\ UNCHANGED auxVars

\* list_installed: search_packages("") filtered by is_installed
list_installed == SelectSeq(RepositorySearchPackages, is_installed)

\* a lookup that takes the first package of that name, installed or not
get_current_version_of_any(package_name) ==
    LET found == SelectSeq(RepositorySearchPackages, LAMBDA p : p.name = package_name)
    IN IF found = <<>> THEN Err("PackageNotFound") ELSE Ok(found[1].version)

\* get_current_version: the version of the first installed package of that name
get_current_version(package_name) ==
    LET found == SelectSeq(list_installed, LAMBDA p : p.name = package_name)
    IN IF found = <<>> THEN Err("PackageNotFound") ELSE Ok(found[1].version)

\* a switch that removes the current version before it looks for the target
SwitchRemovesFirst(package_name, target_version) ==
    /\ pc = "idle"
    /\ snap' = Snapshot
    /\ base' = Snapshot
    /\ published' = <<>>
    /\ frame' = NoFrame
    /\ LET c == Called("switch", Ref(package_name, target_version))
           current == get_current_version(package_name)
       IN /\ call' = c
          /\ IF ~current.ok
             THEN /\ result' = Returned(current)
                  /\ UNCHANGED <<pc, sw>>
             ELSE /\ result' = NoResult
                  /\ pc' = "s_remove"
                  /\ sw' = [active |-> TRUE, package_name |-> package_name,
                            current_ref |-> Ref(package_name, current.val),
                            target_ref |-> Ref(package_name, target_version),
                            removal_result |-> <<>>, install_result |-> <<>>]
    /\ dl' = NoDownload
    /\ UNCHANGED <<ledgerVars, paths, cache, writes>>
    /\ UNCHANGED auxVars

\* switch, lines 133-139: get_current_version, get_package of the target
Switch(package_name, target_version) ==
    /\ pc = "idle"
    /\ snap' = Snapshot
    /\ base' = Snapshot
    /\ published' = <<>>
    /\ frame' = NoFrame
    /\ LET c == Called("switch", Ref(package_name, target_version))
           current == get_current_version(package_name)
           target_ref == Ref(package_name, target_version)
           target_package == RepositoryGetPackage(target_ref)
       IN /\ call' = c
          /\ IF ~current.ok
             THEN /\ result' = Returned(current)
                  /\ UNCHANGED <<pc, sw>>
             ELSE IF ~target_package.ok
             THEN /\ result' = Returned(target_package)
                  /\ UNCHANGED <<pc, sw>>
             ELSE /\ result' = NoResult
                  /\ pc' = "s_remove"
                  /\ sw' = [active |-> TRUE, package_name |-> package_name,
                            current_ref |-> Ref(package_name, current.val),
                            target_ref |-> target_ref,
                            removal_result |-> <<>>, install_result |-> <<>>]
    /\ dl' = NoDownload
    /\ UNCHANGED <<ledgerVars, paths, cache, writes>>
    /\ UNCHANGED auxVars

\* switch, line 141: remove(current)
SwitchRemove ==
    /\ pc = "s_remove"
    /\ RemoveEnter(call, published, sw.current_ref)
    /\ UNCHANGED <<ledgerVars, paths, cache, snap, base, dl, writes>>
    /\ UNCHANGED auxVars

\* switch, line 143: install(target)
SwitchInstall ==
    /\ pc = "s_install"
    /\ InstallEnter(call, published, sw.target_ref)
    /\ UNCHANGED <<ledgerVars, paths, cache, snap, base, dl, writes>>
    /\ UNCHANGED auxVars

\* switch, lines 145-154: the SwitchResult
SwitchFinish ==
    /\ pc = "s_finish"
    /\ result' = Returned(Ok([package_name |-> sw.package_name,
                              from_version |-> <<sw.current_ref.version>>,
                              to_version |-> sw.target_ref.version,
                              removed_files |-> sw.removal_result.removed_files,
                              installed_files |-> Len(sw.install_result.installed_files),
                              warnings |-> <<>>]))
    /\ pc' = "idle"
    /\ sw' = NoSwitch
    /\ UNCHANGED <<ledgerVars, paths, cache, published, frame, call, snap, base, dl, writes>>
    /\ UNCHANGED auxVars

\* info: get_package
info(r) == RepositoryGetPackage(r)

----------------------------------------------------------------------------
(* Writes made from outside the manager: the ledger API and the package    *)
(* files repository.  They end the history the manager's claims read.      *)

Outside ==
    /\ pc = "idle"
    /\ writes < MaxWrites
    /\ writes' = writes + 1
    /\ call' = NoCall
    /\ result' = NoResult
    /\ published' = <<>>
    /\ snap' = <<>>
    /\ base' = <<>>
    /\ dl' = NoDownload
    /\ UNCHANGED <<pc, frame, sw, cache>>
    /\ UNCHANGED auxVars

\* a package made by PackageFactory::create, its flags set by set_installed and
\* set_active, saved by save_package
SavePackage(r, installed, active) ==
    /\ Outside
    /\ save_package(set_active(set_installed(PackageFactoryCreate(r.name, r.version),
                                             installed), active))
    /\ UNCHANGED <<installations, installed_files, symlinks, paths>>

\* an installation made by InstallationFactory::create, filled by add_installed_file
\* and add_symlink with the package's install-list targets, activated or not, saved
\* by save_installation
SaveInstallation(id, r, active) ==
    /\ Outside
    /\ LET created == InstallationFactoryCreate(id, RefId(r))
           full == IF r.name = "app"
                   THEN add_symlink(add_installed_file(created, InstlistTarget(r.name)),
                                    InstlistTarget(r.name))
                   ELSE created
       IN save_installation(IF active THEN activate(full) ELSE deactivate(full))
    /\ UNCHANGED <<packages, dependencies, paths>>

\* load_package_instlist: the symlinks of the package's install list
load_package_instlist(r) ==
    IF r.name = "app"
    THEN <<[source |-> <<r.name, r.version, "bin/app">>, target |-> InstlistTarget(r.name),
            link_type |-> "File"]>>
    ELSE <<>>

\* create_symlinks_from_instlist: the links are created in order; the first failing
\* create_symlink stops the loop and leaves the earlier links
CreateSymlinksFromInstlist(r) ==
    /\ Outside
    /\ LET links == load_package_instlist(r)
       IN \E created \in 0..Len(links) :
              paths' = paths \cup {links[i].target : i \in 1..created}
    /\ UNCHANGED ledgerVars

\* remove_installation_files: each existing target is removed in order; the first
\* failing removal stops the loop
RemoveInstallationFiles(r) ==
    /\ Outside
    /\ LET links == load_package_instlist(r)
       IN \E removed \in 0..Len(links) :
              paths' = paths \ {links[i].target : i \in 1..removed}
    /\ UNCHANGED ledgerVars

----------------------------------------------------------------------------

\* no transaction was begun
NoTx == [phase |-> "idle"]

\* no materialization call was made
NoMat == [called |-> FALSE]

\* no resolution was made
NoResolution == [called |-> FALSE]

\* no function was called
NoAnswer == [of |-> "none"]

\* an empty ledger, an empty cache, nothing materialized, no call made
ManagerInit ==
    /\ packages = {}
    /\ dependencies = {}
    /\ installations = {}
    /\ installed_files = {}
    /\ symlinks = {}
    /\ paths = {}
    /\ cache = [r \in PackageReference |-> "none"]
    /\ published = <<>>
    /\ pc = "idle"
    /\ frame = NoFrame
    /\ sw = NoSwitch
    /\ call = NoCall
    /\ result = NoResult
    /\ snap = <<>>
    /\ base = <<>>
    /\ dl = NoDownload
    /\ writes = 0

Init ==
    /\ ManagerInit
    /\ tx = NoTx
    /\ store = <<>>
    /\ fs = <<>>
    /\ mat = NoMat
    /\ resolution = NoResolution
    /\ tasks = <<>>
    /\ remote = <<>>
    /\ answer = NoAnswer

Next ==
    \/ \E r \in PackageReference : Install(r)
    \/ InstallResolve
    \/ InstallDownload
    \/ InstallPackages
    \/ InstallComplete
    \/ \E r \in PackageReference : Remove(r)
    \/ RemoveCheck
    \/ RemoveComplete
    \/ \E n \in Names, v \in Versions : Switch(n, v)
    \/ SwitchRemove
    \/ SwitchInstall
    \/ SwitchFinish
    \/ \E r \in Catalog, installed, active \in BOOLEAN : SavePackage(r, installed, active)
    \/ \E id \in InstallationIds, r \in Catalog, active \in BOOLEAN :
          SaveInstallation(id, r, active)
    \/ \E r \in Catalog : CreateSymlinksFromInstlist(r)
    \/ \E r \in Catalog : RemoveInstallationFiles(r)

Spec == Init /\ [][Next]_vars

----------------------------------------------------------------------------
(* DatabaseRepository, statement by statement: save_package and            *)
(* save_installation run their statements in one rusqlite transaction,     *)
(* which rolls back when it is dropped without commit (a `?` return) or    *)
(* when the process stops before the commit.                               *)

\* everything but the ledger, the write count and the transaction
notTx == <<paths, cache, managerVars, dl, filesVars, resolution, tasks, remote, answer>>

\* the ledger becomes L
LedgerBecomes(L) ==
    /\ packages' = L[1]
    /\ dependencies' = L[2]
    /\ installations' = L[3]
    /\ installed_files' = L[4]
    /\ symlinks' = L[5]

\* a rollback that restores every table but dependencies
RollbackSkipsDependencies(before) ==
    /\ LedgerBecomes(<<before[1], dependencies, before[3], before[4], before[5]>>)

\* a rollback that leaves the installations row written
RollbackKeepsInstallationRow(before) ==
    /\ LedgerBecomes(<<before[1], before[2], installations, before[4], before[5]>>)

\* the transaction is dropped without commit: the ledger is as it was at its begin
Rollback(before) ==
    /\ LedgerBecomes(before)

\* the statements of save_package, lines 126-150, the dependencies in the given order
SavePackageStatements(package, order) ==
    <<[kind |-> "packages_replace", row |-> PackageRow(package)],
      [kind |-> "dependencies_delete", row |-> package.id]>>
    \o [i \in 1..Len(order) |->
          [kind |-> "dependencies_insert",
           row |-> [package_id |-> package.id, dependency_name |-> order[i].name,
                    version_constraint |-> order[i].constraint]]]

\* the statements of save_installation, lines 368-390, the files in the given order
SaveInstallationStatements(installation, order) ==
    <<[kind |-> "installations_replace",
       row |-> [installation_id |-> installation.id,
                package_id |-> installation.package_id,
                active |-> installation.active]],
      [kind |-> "installed_files_delete", row |-> installation.id]>>
    \o [i \in 1..Len(order) |->
          [kind |-> "installed_files_insert",
           row |-> [installation_id |-> installation.id, package_id |-> "",
                    file_path |-> order[i]]]]
    \o <<[kind |-> "symlinks_delete", row |-> installation.id]>>
    \o [i \in 1..Len(installation.symlinks) |->
          [kind |-> "symlinks_insert",
           row |-> [installation_id |-> installation.id, seq |-> i,
                    target_path |-> installation.symlinks[i]]]]

\* tx.execute of one statement on the ledger L
Execute(stmt, L) ==
    CASE stmt.kind = "packages_replace" ->
            [L EXCEPT ![1] = {row \in @ : row.id # stmt.row.id} \cup {stmt.row}]
      [] stmt.kind = "dependencies_delete" ->
            [L EXCEPT ![2] = {row \in @ : row.package_id # stmt.row}]
      [] stmt.kind = "dependencies_insert" ->
            [L EXCEPT ![2] = @ \cup {stmt.row}]
      [] stmt.kind = "installations_replace" ->
            [L EXCEPT ![3] = {row \in @ : row.installation_id # stmt.row.installation_id}
                                \cup {stmt.row}]
      [] stmt.kind = "installed_files_delete" ->
            [L EXCEPT ![4] = {row \in @ : row.installation_id # stmt.row}]
      [] stmt.kind = "installed_files_insert" ->
            [L EXCEPT ![4] = @ \cup {stmt.row}]
      [] stmt.kind = "symlinks_delete" ->
            [L EXCEPT ![5] = {row \in @ : row.installation_id # stmt.row}]
      [] stmt.kind = "symlinks_insert" ->
            [L EXCEPT ![5] = @ \cup {stmt.row}]

\* no call of the repository is in progress
TxAtRest == tx.phase \in {"idle", "committed", "failed", "crashed"}

\* connection.transaction()?: the call begins, or fails before any statement
TxBegin(op, id, statements, piped) ==
    /\ \E begun \in BOOLEAN :
          tx' = [phase |-> IF begun THEN "open" ELSE "failed", op |-> op, id |-> id,
                 statements |-> statements, step |-> 0, before |-> Ledger,
                 piped |-> piped]
    /\ UNCHANGED <<ledgerVars, notTx>>

\* save_package is called with a package whose flags the caller set
BeginSavePackage(r, installed, active) ==
    /\ TxAtRest
    /\ writes < MaxWrites
    /\ writes' = writes + 1
    /\ LET package == set_active(set_installed(PackageFactoryCreate(r.name, r.version),
                                                installed), active)
       IN \E order \in Orderings(package.dependencies) :
              TxBegin("save_package", package.id, SavePackageStatements(package, order),
                      FALSE)

\* the installation the caller builds for r: its install-list target as file and symlink
InstallationOf(id, r, active) ==
    LET created == InstallationFactoryCreate(id, RefId(r))
        full == IF load_package_instlist(r) = <<>>
                THEN created
                ELSE add_symlink(add_installed_file(created, InstlistTarget(r.name)),
                                 InstlistTarget(r.name))
    IN IF active THEN activate(full) ELSE deactivate(full)

\* save_installation is called with an installation, new or saved before
BeginSaveInstallation(id, r, active) ==
    /\ TxAtRest
    /\ writes < MaxWrites
    /\ writes' = writes + 1
    /\ LET installation == InstallationOf(id, r, active)
       IN \E order \in Orderings(installation.installed_files) :
              TxBegin("save_installation", id,
                      SaveInstallationStatements(installation, order), FALSE)

\* the next tx.execute(...)?: the statement takes effect, or fails and the function
\* returns, dropping the transaction
TxStatement ==
    /\ tx.phase = "open"
    /\ tx.step < Len(tx.statements)
    /\ \E executed \in BOOLEAN :
          IF executed
          THEN /\ LedgerBecomes(Execute(tx.statements[tx.step + 1], Ledger))
               /\ tx' = [tx EXCEPT !.step = @ + 1]
          ELSE /\ Rollback(tx.before)
               /\ tx' = [tx EXCEPT !.phase = "failed"]
    /\ UNCHANGED <<writes, notTx>>

\* tx.commit()?
TxCommit ==
    /\ tx.phase = "open"
    /\ tx.step = Len(tx.statements)
    /\ \E committed \in BOOLEAN :
          IF committed
          THEN /\ UNCHANGED ledgerVars
               /\ tx' = [tx EXCEPT !.phase = "committed"]
          ELSE /\ Rollback(tx.before)
               /\ tx' = [tx EXCEPT !.phase = "failed"]
    /\ UNCHANGED <<writes, notTx>>

\* the file-system calls of extract_package, lines 61-78, in order
ExtractCalls == <<"create_dir_all", "write_file", "unpack", "remove">>

\* extract_package is called for a new installation (InstallationId::new) of r
BeginExtract(id, r) ==
    /\ TxAtRest
    /\ writes < MaxWrites
    /\ writes' = writes + 1
    /\ \A row \in installations : row.installation_id # id
    /\ tx' = [phase |-> "extract", op |-> "extract_package", id |-> id,
              statements |-> <<>>, step |-> 0, before |-> Ledger, piped |-> TRUE,
              package |-> r]
    /\ UNCHANGED <<ledgerVars, notTx>>

\* the next file-system call of extract_package succeeds or returns its error
ExtractStep ==
    /\ tx.phase = "extract"
    /\ \E done \in BOOLEAN :
          tx' = [tx EXCEPT !.step = IF done THEN @ + 1 ELSE @,
                           !.phase = IF ~done THEN "failed"
                                     ELSE IF tx.step + 1 = Len(ExtractCalls)
                                          THEN "extracted" ELSE "extract"]
    /\ UNCHANGED <<ledgerVars, writes, notTx>>

\* save_installation of the installation whose package was extracted
SaveExtracted(active) ==
    /\ tx.phase = "extracted"
    /\ LET installation == InstallationOf(tx.id, tx.package, active)
       IN \E order \in Orderings(installation.installed_files) :
              TxBegin("save_installation", tx.id,
                      SaveInstallationStatements(installation, order), TRUE)
    /\ UNCHANGED writes

\* the process stops: an open transaction is rolled back when the database is next opened
Crash ==
    /\ tx.phase \in {"extract", "extracted", "open"}
    /\ Rollback(tx.before)
    /\ tx' = [phase |-> "crashed", op |-> tx.op, id |-> tx.id,
              statements |-> tx.statements, step |-> tx.step, before |-> tx.before,
              piped |-> tx.piped]
    /\ UNCHANGED <<writes, notTx>>

TxNext ==
    \/ \E r \in Catalog, installed, active \in BOOLEAN : BeginSavePackage(r, installed, active)
    \/ \E id \in InstallationIds, r \in Catalog, active \in BOOLEAN :
          BeginSaveInstallation(id, r, active)
    \/ TxStatement
    \/ TxCommit
    \/ \E id \in InstallationIds, r \in Catalog : BeginExtract(id, r)
    \/ ExtractStep
    \/ \E active \in BOOLEAN : SaveExtracted(active)
    \/ Crash

TxSpec == Init /\ [][TxNext]_vars

----------------------------------------------------------------------------
(* PackageFilesRepository: the install list of an extracted package and    *)
(* its materialization.  A path is the sequence of its components.         *)

\* everything but the package store, the file system and the write count
notFiles == <<ledgerVars, paths, cache, managerVars, dl, tx, resolution, tasks, remote,
              answer>>

HomeBinApp == <<"home", "u", "bin", "app">>
UsrBinTool == <<"usr", "bin", "tool">>
EtcAppConf == <<"etc", "app.conf">>

Targets == {HomeBinApp, UsrBinTool, EtcAppConf}

\* the packages in the store
StoredPackages == {PackageId("app", 1), PackageId("libx", 1)}

\* instlist files: missing, or lines of whitespace-separated fields
InstlistFiles ==
    {[exists |-> FALSE, lines |-> <<>>]}
        \cup {[exists |-> TRUE, lines |-> lines] :
                lines \in {<<<<"bin/app", HomeBinApp>>>>,
                           <<<<"bin/app", HomeBinApp>>, <<"bin/tool", UsrBinTool>>>>,
                           <<<<"bin/tool", UsrBinTool>>, <<"bin/app", HomeBinApp>>>>,
                           <<<<"#", "configuration">>, <<>>, <<"conf">>,
                             <<"conf", EtcAppConf>>>>}}

\* Path::starts_with: dir is a prefix of path, component by component
starts_with(path, dir) ==
    /\ Len(dir) <= Len(path)
    /\ \A i \in 1..Len(dir) : path[i] = dir[i]

\* Path::parent
parent(path) == SubSeq(path, 1, Len(path) - 1)

\* InstallationFactory::is_system_directory
system_dirs ==
    {<<"bin">>, <<"sbin">>, <<"usr", "bin">>, <<"usr", "sbin">>, <<"lib">>,
     <<"usr", "lib">>, <<"etc">>, <<"var">>}

is_system_directory(path) == \E dir \in system_dirs : starts_with(path, dir)

\* InstallationFactory::validate_symlink
validate_symlink(symlink) ==
    IF symlink.source = <<>> \/ symlink.target = <<>> \/ symlink.source = symlink.target
    THEN Err("ValidationError")
    ELSE IF is_system_directory(symlink.target)
         THEN Err("ValidationError")
         ELSE Ok(<<>>)

\* the paths of the model's file system: the targets and their ancestors
FsPaths == UNION {{SubSeq(t, 1, n) : n \in 1..Len(t)} : t \in Targets}

\* the lines load_package_instlist keeps: not empty, not a comment, two fields
InstlistEntries(lines) ==
    SelectSeq(lines, LAMBDA line : line # <<>> /\ line[1] # "#" /\ Len(line) = 2)

\* load_package_instlist, lines 136-179: no symlink when the file is missing, else one
\* per kept line, its source under the package's directory
LoadPackageInstlist(package_id) ==
    IF ~store[package_id].exists
    THEN <<>>
    ELSE LET entries == InstlistEntries(store[package_id].lines)
         IN [i \in 1..Len(entries) |->
                [source |-> <<package_id, entries[i][1]>>, target |-> entries[i][2],
                 link_type |-> "File"]]

\* file_system.create_dir_all(dir): dir and its ancestors are directories
create_dir_all(f, dir) ==
    [p \in FsPaths |-> IF starts_with(dir, p) THEN [kind |-> "dir", source |-> <<>>] ELSE f[p]]

\* file_system.create_symlink / copy_file: the target holds a link to, or a copy of,
\* the source, whatever it held before
write_target(f, symlink, kind) ==
    [f EXCEPT ![symlink.target] = [kind |-> kind, source |-> symlink.source]]

\* the file system after the first n turns of the materialization loop
RECURSIVE Materialized(_, _, _, _)
Materialized(f, links, n, kind) ==
    IF n = 0
    THEN f
    ELSE write_target(create_dir_all(Materialized(f, links, n - 1, kind),
                                     parent(links[n].target)),
                      links[n], kind)

\* how a materialization call may end: every turn done, or the first failing call
\* of the file system after some turns
MaterializationOutcomes(package_id, links) ==
    {[done |-> Len(links), failed |-> "none"]}
        \cup {[done |-> n, failed |-> c] :
                n \in 0..(Len(links) - 1), c \in {"create_dir_all", "write"}}
        \cup {[done |-> 0, failed |-> "read_file"] : x \in {y \in {store[package_id]} : y.exists}}

\* the call before this one: which it was and whether it returned Ok
Prior ==
    IF mat.called
    THEN [called |-> TRUE, op |-> mat.op, package_id |-> mat.package_id,
          ok |-> mat.result.ok]
    ELSE [called |-> FALSE]

\* create_symlinks_from_instlist (kind "symlink") and copy_files_direct (kind "file"):
\* load the install list, then for each entry create_dir_all(parent) and write the
\* target, returning at the first error
Materialize(op, kind, package_id) ==
    /\ writes < MaxWrites
    /\ writes' = writes + 1
    /\ LET links == LoadPackageInstlist(package_id)
       IN \E outcome \in MaterializationOutcomes(package_id, links) :
            LET done == Materialized(fs, links, outcome.done, kind)
            IN /\ fs' = IF outcome.failed = "write"
                        THEN create_dir_all(done, parent(links[outcome.done + 1].target))
                        ELSE done
               /\ mat' = [called |-> TRUE, op |-> op, package_id |-> package_id,
                          links |-> IF outcome.failed = "read_file" THEN <<>> ELSE links,
                          result |-> IF outcome.failed = "none"
                                     THEN Ok(links) ELSE Err("FileSystemError"),
                          done |-> outcome.done,
                          before |-> fs,
                          failed |-> outcome.failed,
                          prior |-> Prior]
    /\ UNCHANGED <<store, notFiles>>

create_symlinks_from_instlist(package_id) ==
    /\ Materialize("create_symlinks_from_instlist", "symlink", package_id)

copy_files_direct(package_id) ==
    /\ Materialize("copy_files_direct", "file", package_id)

\* the store holds any instlist for each package; the system directories exist, and a
\* file that no installation owns may be at a target
FilesInit ==
    /\ ManagerInit
    /\ tx = NoTx
    /\ store \in [StoredPackages -> InstlistFiles]
    /\ \E foreign \in SUBSET {HomeBinApp} :
          fs = [p \in FsPaths |->
                  IF p \in foreign THEN [kind |-> "file", source |-> <<"foreign">>]
                  ELSE IF \E t \in Targets : is_system_directory(t) /\ starts_with(parent(t), p)
                       THEN [kind |-> "dir", source |-> <<>>]
                       ELSE [kind |-> "absent", source |-> <<>>]]
    /\ mat = NoMat
    /\ resolution = NoResolution
    /\ tasks = <<>>
    /\ remote = <<>>
    /\ answer = NoAnswer

FilesNext ==
    \/ \E id \in StoredPackages : create_symlinks_from_instlist(id)
    \/ \E id \in StoredPackages : copy_files_direct(id)

FilesSpec == FilesInit /\ [][FilesNext]_vars

\* file_system.exists(path)
exists(f, path) == f[path].kind # "absent"

\* file_system.is_symlink(path)
is_symlink(f, path) == f[path].kind = "symlink"

\* file_system.remove_symlink(path) and file_system.remove(path)
remove_path(f, path) == [f EXCEPT ![path] = [kind |-> "absent", source |-> <<>>]]

\* one turn of the removal loop that leaves regular files where they are
remove_target_if_symlink(f, target) ==
    IF exists(f, target) /\ is_symlink(f, target) THEN remove_path(f, target) ELSE f

\* one turn of the removal loop, lines 219-225: an existing target is removed,
\* by remove_symlink when it is a symlink and by remove otherwise
remove_target(f, target) ==
    IF exists(f, target) THEN remove_path(f, target) ELSE f

\* the file system after the first n turns of the removal loop
RECURSIVE Removed(_, _, _)
Removed(f, links, n) ==
    IF n = 0 THEN f ELSE remove_target(Removed(f, links, n - 1), links[n].target)

\* the calls of remove_symlink and remove made by the first n turns, in order
RECURSIVE RemovalCalls(_, _, _)
RemovalCalls(f, links, n) ==
    IF n = 0 THEN <<>>
    ELSE LET earlier == Removed(f, links, n - 1)
             target == links[n].target
         IN  RemovalCalls(f, links, n - 1) \o
                (IF ~exists(earlier, target) THEN <<>>
                 ELSE IF is_symlink(earlier, target)
                      THEN <<[call |-> "remove_symlink", path |-> target]>>
                      ELSE <<[call |-> "remove", path |-> target]>>)

\* how a removal may end: every turn done, the install list unreadable, or the
\* removal of an existing target failing after some turns
RemovalOutcomes(package_id, links) ==
    {[done |-> Len(links), failed |-> "none"]}
        \cup {[done |-> n, failed |-> "remove"] :
                n \in {m \in 0..(Len(links) - 1) :
                          exists(Removed(fs, links, m), links[m + 1].target)}}
        \cup {[done |-> 0, failed |-> "read_file"] : x \in {y \in {store[package_id]} : y.exists}}

\* remove_installation_files: load the install list, then for each entry whose
\* target exists remove it, returning at the first error
remove_installation_files(package_id) ==
    /\ writes < MaxWrites
    /\ writes' = writes + 1
    /\ LET links == LoadPackageInstlist(package_id)
       IN \E outcome \in RemovalOutcomes(package_id, links) :
            /\ fs' = Removed(fs, links, outcome.done)
            /\ mat' = [called |-> TRUE, op |-> "remove_installation_files",
                       package_id |-> package_id,
                       links |-> IF outcome.failed = "read_file" THEN <<>> ELSE links,
                       result |-> IF outcome.failed = "none"
                                  THEN Ok(<<>>) ELSE Err("FileSystemError"),
                       done |-> outcome.done,
                       before |-> fs,
                       failed |-> outcome.failed,
                       prior |-> Prior,
                       calls |-> RemovalCalls(fs, links, outcome.done)]
    /\ UNCHANGED <<store, notFiles>>

RemovalNext ==
    \/ FilesNext
    \/ \E id \in StoredPackages : remove_installation_files(id)

\* materialization and removal over the same store and file system
RemovalSpec == FilesInit /\ [][RemovalNext]_vars

----------------------------------------------------------------------------
(* Dependency resolution, as install runs it (lines 65-69), over           *)
(* repositories whose packages declare any of a set of dependencies.       *)

\* everything but the repository's tables and the resolution
notResolve == <<installations, installed_files, symlinks, paths, cache, managerVars, dl,
                writes, tx, filesVars, tasks, remote, answer>>

\* the packages of the repository: app 1, libx 1 and 2, core 1
RepositoryPackages ==
    {Ref("app", 1), Ref("libx", 1), Ref("libx", 2), Ref("core", 1)}

\* the dependencies a package of that name may declare
DeclarableDependencies(name) ==
    CASE name = "app" -> {[name |-> "libx", constraint |-> {1}],
                          [name |-> "libx", constraint |-> {2}],
                          [name |-> "libx", constraint |-> {1, 2}],
                          [name |-> "core", constraint |-> {1}]}
      [] name = "libx" -> {[name |-> "core", constraint |-> {1}],
                           [name |-> "core", constraint |-> {2}]}
      [] OTHER -> {[name |-> "app", constraint |-> {1}]}

\* the dependencies rows of packages that declare the dependencies `declared`
DependencyRows(declared) ==
    UNION {{[package_id |-> RefId(r), dependency_name |-> d.name,
             version_constraint |-> d.constraint] : d \in declared[r]} :
           r \in RepositoryPackages}

\* every package saved with the dependencies it declares, none installed
ResolveInit ==
    /\ packages = {PackageRow(PackageFactoryCreate(r.name, r.version)) :
                     r \in RepositoryPackages}
    /\ \E declared \in [RepositoryPackages -> UNION {SUBSET DeclarableDependencies(n) :
                                                      n \in {"app", "libx", "core"}}] :
          /\ \A r \in RepositoryPackages : declared[r] \subseteq DeclarableDependencies(r.name)
          /\ dependencies = DependencyRows(declared)
    /\ installations = {}
    /\ installed_files = {}
    /\ symlinks = {}
    /\ paths = {}
    /\ cache = [r \in PackageReference |-> "none"]
    /\ published = <<>>
    /\ pc = "idle"
    /\ frame = NoFrame
    /\ sw = NoSwitch
    /\ call = NoCall
    /\ result = NoResult
    /\ snap = <<>>
    /\ base = <<>>
    /\ dl = NoDownload
    /\ writes = 0
    /\ tx = NoTx
    /\ store = <<>>
    /\ fs = <<>>
    /\ mat = NoMat
    /\ resolution = NoResolution
    /\ tasks = <<>>
    /\ remote = <<>>
    /\ answer = NoAnswer

\* install, lines 65-69: get_package(r), then resolve_dependencies of its dependencies
ResolveFor(r) ==
    /\ LET got == RepositoryGetPackage(r)
       IN \E order \in Orderings(got.val.dependencies) :
              resolution' = [called |-> TRUE, ref |-> r, package |-> got.val,
                             order |-> order, result |-> ResolveDependencies(order)]
    /\ UNCHANGED <<packages, dependencies, notResolve>>

ResolveNext ==
    \/ \E r \in RepositoryPackages : ResolveFor(r)

ResolveSpec == ResolveInit /\ [][ResolveNext]_vars

----------------------------------------------------------------------------
(* Concurrent install calls on one PackageManager: install takes &self and *)
(* the ports are shared behind Arc, so calls interleave at every await.    *)

\* everything but the cache and the tasks
notTasks == <<ledgerVars, paths, managerVars, dl, writes, tx, filesVars, resolution,
              remote, answer>>

Tasks == {"t1", "t2"}

\* a task that has not called install
NoTask == [pc |-> "idle"]

\* the repository holds every package of the catalog, none installed; no task runs
TasksInit ==
    /\ packages = {PackageRow(PackageFactoryCreate(r.name, r.version)) : r \in Catalog}
    /\ dependencies =
          UNION {{[package_id |-> RefId(r), dependency_name |-> d.name,
                   version_constraint |-> d.constraint] :
                    d \in MetaDependencies(r.name, r.version)} : r \in Catalog}
    /\ installations = {}
    /\ installed_files = {}
    /\ symlinks = {}
    /\ paths = {}
    /\ cache = [r \in PackageReference |-> "none"]
    /\ published = <<>>
    /\ pc = "idle"
    /\ frame = NoFrame
    /\ sw = NoSwitch
    /\ call = NoCall
    /\ result = NoResult
    /\ snap = <<>>
    /\ base = <<>>
    /\ dl = NoDownload
    /\ writes = 0
    /\ tx = NoTx
    /\ store = <<>>
    /\ fs = <<>>
    /\ mat = NoMat
    /\ resolution = NoResolution
    /\ tasks = [t \in Tasks |-> NoTask]
    /\ remote = <<>>
    /\ answer = NoAnswer

\* the task returns from install
TaskReturns(t, res) ==
    tasks' = [tasks EXCEPT ![t] = [pc |-> "done", ref |-> tasks[t].ref,
                                   all_packages |-> tasks[t].all_packages,
                                   next |-> tasks[t].next, data |-> "none",
                                   puts |-> tasks[t].puts, result |-> res]]

\* install, lines 59-73: publish InstallationStarted, get_package,
\* resolve_dependencies, the list to download; no lock is taken
TaskInstall(t, r) ==
    /\ tasks[t].pc = "idle"
    /\ LET got == RepositoryGetPackage(r)
       IN \E order \in Orderings(got.val.dependencies) :
              LET deps == ResolveDependencies(order)
              IN tasks' = [tasks EXCEPT ![t] =
                    [pc |-> IF deps.ok THEN "has_package" ELSE "done", ref |-> r,
                     all_packages |-> IF deps.ok THEN <<got.val>> \o deps.val ELSE <<>>,
                     next |-> 1, data |-> "none", puts |-> 0,
                     result |-> IF deps.ok THEN NoResult ELSE deps]]
    /\ UNCHANGED <<cache, notTasks>>

\* download_package_if_needed, lines 176-182, or the end of the loop: the rest of
\* install writes nothing
TaskHasPackage(t) ==
    /\ tasks[t].pc = "has_package"
    /\ IF tasks[t].next > Len(tasks[t].all_packages)
       THEN TaskReturns(t, Ok(<<>>))
       ELSE IF has_package(from_package(tasks[t].all_packages[tasks[t].next]))
            THEN tasks' = [tasks EXCEPT ![t].next = @ + 1]
            ELSE tasks' = [tasks EXCEPT ![t].pc = "download_package"]
    /\ UNCHANGED <<cache, notTasks>>

\* download_package_if_needed, lines 184-194: publish DownloadStarted, download_package
TaskDownloadPackage(t) ==
    /\ tasks[t].pc = "download_package"
    /\ \E started \in BOOLEAN, net \in NetworkResponses :
          IF ~started
          THEN /\ net = Err("NetworkError")
               /\ TaskReturns(t, Err("EventError"))
          ELSE IF ~net.ok
               THEN TaskReturns(t, net)
               ELSE tasks' = [tasks EXCEPT ![t].pc = "put_package", ![t].data = net.val]
    /\ UNCHANGED <<cache, notTasks>>

\* download_package_if_needed, lines 196-206: cache.put_package, publish
\* DownloadCompleted
TaskPutPackage(t) ==
    /\ tasks[t].pc = "put_package"
    /\ LET r == from_package(tasks[t].all_packages[tasks[t].next])
       IN \E put_ok \in BOOLEAN :
            IF put_ok
            THEN /\ cache' = put_package(cache, r, tasks[t].data)
                 /\ tasks' = [tasks EXCEPT ![t].pc = "has_package", ![t].next = @ + 1,
                                           ![t].data = "none", ![t].puts = @ + 1]
            ELSE /\ UNCHANGED cache
                 /\ TaskReturns(t, Err("CacheError"))
    /\ UNCHANGED notTasks

TasksNext ==
    \/ \E t \in Tasks, r \in Catalog : TaskInstall(t, r)
    \/ \E t \in Tasks : TaskHasPackage(t)
    \/ \E t \in Tasks : TaskDownloadPackage(t)
    \/ \E t \in Tasks : TaskPutPackage(t)

TasksSpec == TasksInit /\ [][TasksNext]_vars

----------------------------------------------------------------------------
(* PackageService: one local and one remote PackageRepository.  What the   *)
(* two repositories reply is drawn from the replies the ports can give;    *)
(* the service keeps no state, so one call is followed from the start.     *)

notAnswer == <<ledgerVars, paths, cache, managerVars, dl, writes, tx, filesVars,
               resolution, tasks, remote>>

\* the replies of PackageRepository::get_package(ref): the package, or an error
GetPackageReplies(r, errors) ==
    {Ok(set_installed(PackageFactoryCreate(r.name, r.version), i)) : i \in BOOLEAN}
        \cup {Err(e) : e \in errors}

LocalErrors == {"PackageNotFound", "DatabaseError", "IoError"}
RemoteErrors == {"PackageNotFound", "NetworkError"}

\* find_best_package with the fallback taken on every local error
find_best_package_on_any_error(local, remote_reply) ==
    IF local.ok
    THEN [result |-> local, remote_queried |-> FALSE]
    ELSE [result |-> remote_reply, remote_queried |-> TRUE]

\* PackageService::find_best_package: the match on local.get_package; the
\* remote repository is awaited in the PackageNotFound arm only
find_best_package(local, remote_reply) ==
    IF local.ok
    THEN [result |-> local, remote_queried |-> FALSE]
    ELSE IF local.err = "PackageNotFound"
         THEN [result |-> remote_reply, remote_queried |-> TRUE]
         ELSE [result |-> local, remote_queried |-> FALSE]

\* str::cmp on the names of the universe: "app" < "libx"
NameRank(name) == IF name = "app" THEN 1 ELSE 2

\* slice::sort_by(|a, b| a.name().cmp(b.name())): a stable sort, here by
\* insertion of each element after the elements that are not greater
RECURSIVE SortByName(_)
SortByName(list) ==
    IF list = <<>> THEN <<>>
    ELSE LET sorted == SortByName(SubSeq(list, 1, Len(list) - 1))
             x == list[Len(list)]
             k == Cardinality({i \in 1..Len(sorted) :
                                  NameRank(sorted[i].name) <= NameRank(x.name)})
         IN  SubSeq(sorted, 1, k) \o <<x>> \o SubSeq(sorted, k + 1, Len(sorted))

\* Vec::dedup_by(|a, b| a.id() == b.id()): an element is dropped when its id
\* is the id of the element kept just before it
RECURSIVE DedupById(_)
DedupById(list) ==
    IF Len(list) <= 1 THEN list
    ELSE LET kept == DedupById(SubSeq(list, 1, Len(list) - 1))
             x == list[Len(list)]
         IN  IF x.id = kept[Len(kept)].id THEN kept ELSE Append(kept, x)

\* PackageService::search_all_packages: local `?`, remote `?`, extend, sort, dedup
search_all_packages(local, remote_reply) ==
    IF ~local.ok THEN local
    ELSE IF ~remote_reply.ok THEN remote_reply
    ELSE Ok(DedupById(SortByName(local.val \o remote_reply.val)))

\* what search_packages can reply: up to MaxFound packages without repetition,
\* in any order, or an error
MaxFound == 3

SearchReplies(error) ==
    {Err(error)} \cup
    {Ok([i \in DOMAIN q |-> PackageFactoryCreate(q[i].name, q[i].version)]) :
        q \in UNION {Orderings(S) :
                        S \in {T \in SUBSET PackageReference : Cardinality(T) <= MaxFound}}}

FindBestPackage ==
    \E r \in Catalog :
    \E local \in GetPackageReplies(r, LocalErrors) :
    \E remote_reply \in GetPackageReplies(r, RemoteErrors) :
        /\ answer = NoAnswer
        /\ answer' = [of |-> "find_best_package", ref |-> r, local |-> local,
                      remote |-> remote_reply,
                      remote_queried |-> find_best_package(local, remote_reply).remote_queried,
                      result |-> find_best_package(local, remote_reply).result]
        /\ UNCHANGED notAnswer

SearchAllPackages ==
    \E local \in SearchReplies("DatabaseError") :
    \E remote_reply \in SearchReplies("NetworkError") :
        /\ answer = NoAnswer
        /\ answer' = [of |-> "search_all_packages", local |-> local,
                      remote |-> remote_reply,
                      result |-> search_all_packages(local, remote_reply)]
        /\ UNCHANGED notAnswer

ServiceNext == FindBestPackage \/ SearchAllPackages

ServiceSpec == Init /\ [][ServiceNext]_vars

----------------------------------------------------------------------------
(* RemotePackagesRepository: the index and the package metadata, read      *)
(* through the CacheManager entries of their URLs and fetched from the     *)
(* server on a miss.  A document is what its bytes decode to: whether they *)
(* are UTF-8, the TOML keys they define, and what the keys hold.           *)

notRemote == <<ledgerVars, paths, cache, managerVars, dl, writes, tx, filesVars,
               resolution, tasks, answer>>

\* &[]: no byte, so valid UTF-8 that defines no key
EmptyBytes == [utf8 |-> TRUE, keys |-> {}, body |-> "none"]

\* bytes that are not UTF-8
GarbageBytes == [utf8 |-> FALSE, keys |-> {}, body |-> "none"]

\* RepositoryIndex {name, url, packages}: every field is required
IndexKeys == {"name", "url", "packages"}

\* index.toml with the three fields, in two editions of its package list
IndexBytes(edition) == [utf8 |-> TRUE, keys |-> IndexKeys, body |-> edition]

Editions == {"e1", "e2"}

\* RemotePackageMeta: the fields that are not Option
MetaKeys == {"name", "version", "author", "dependencies"}

\* {name}-{version}-meta.toml of a package
MetaBytes(r) == [utf8 |-> TRUE, keys |-> MetaKeys, body |-> r]

\* the package whose metadata is read
MetaRef == Ref("app", 1)

\* std::str::from_utf8 then toml::from_str::<RepositoryIndex>: both failures
\* become DeserializationError
parse_index(data) ==
    IF ~data.utf8 THEN Err("DeserializationError")
    ELSE IF ~(IndexKeys \subseteq data.keys) THEN Err("DeserializationError")
    ELSE Ok([name |-> "repo", url |-> "base", packages |-> data.body])

\* std::str::from_utf8 then toml::from_str::<RemotePackageMeta>
parse_meta(data) ==
    IF ~data.utf8 THEN Err("DeserializationError")
    ELSE IF ~(MetaKeys \subseteq data.keys) THEN Err("DeserializationError")
    ELSE Ok([name |-> data.body.name, version |-> data.body.version])

\* Option<Vec<u8>> of CacheManager::get_index
None == [some |-> FALSE]
Some(data) == [some |-> TRUE, data |-> data]

\* what the ports of one call do: each may fail
PortOutcomes == [cache_get : BOOLEAN, network_get : BOOLEAN, cache_put : BOOLEAN]

AllPortsSucceed == [cache_get |-> TRUE, network_get |-> TRUE, cache_put |-> TRUE]

\* get_index: a cached entry is parsed and returned, whatever the parse gives;
\* on a miss the index is fetched, parsed, and cached after it parsed
get_index(entry, server, ports) ==
    IF ~ports.cache_get
    THEN [result |-> Err("CacheError"), gets |-> <<>>, entry |-> entry]
    ELSE IF entry.some
    THEN [result |-> parse_index(entry.data), gets |-> <<>>, entry |-> entry]
    ELSE IF ~ports.network_get
    THEN [result |-> Err("NetworkError"), gets |-> <<"index.toml">>, entry |-> entry]
    ELSE IF ~parse_index(server).ok
    THEN [result |-> parse_index(server), gets |-> <<"index.toml">>, entry |-> entry]
    ELSE IF ~ports.cache_put
    THEN [result |-> Err("CacheError"), gets |-> <<"index.toml">>, entry |-> entry]
    ELSE [result |-> parse_index(server), gets |-> <<"index.toml">>,
          entry |-> Some(server)]

\* update_index: put_index(base_url, &[]) then get_index, which reads the
\* entry just written
update_index(entry, server, invalidated, ports) ==
    IF ~invalidated
    THEN [result |-> Err("CacheError"), gets |-> <<>>, entry |-> entry]
    ELSE get_index(Some(EmptyBytes), server, ports)

\* load_remote_meta: a cached entry is used as it is; on a miss the bytes are
\* fetched and cached before they are parsed
load_remote_meta(entry, server, ports) ==
    IF ~ports.cache_get
    THEN [result |-> Err("CacheError"), gets |-> <<>>, entry |-> entry]
    ELSE IF entry.some
    THEN [result |-> parse_meta(entry.data), gets |-> <<>>, entry |-> entry]
    ELSE IF ~ports.network_get
    THEN [result |-> Err("NetworkError"), gets |-> <<"meta.toml">>, entry |-> entry]
    ELSE IF ~ports.cache_put
    THEN [result |-> Err("CacheError"), gets |-> <<"meta.toml">>, entry |-> entry]
    ELSE [result |-> parse_meta(server), gets |-> <<"meta.toml">>,
          entry |-> Some(server)]

\* get_package: load_remote_meta `?`, then the package of the metadata's name
\* and the reference's version
RemoteGetPackage(r, entry, server, ports) ==
    LET loaded == load_remote_meta(entry, server, ports)
    IN  IF ~loaded.result.ok THEN loaded
        ELSE [loaded EXCEPT !.result =
                 Ok(PackageFactoryCreate(loaded.result.val.name, r.version))]

\* no call was made
NoRemoteCall == [op |-> "none"]

\* the cache holds nothing or any bytes for the two URLs (it is storage the
\* repository does not own); the server serves an index and the metadata, or
\* bytes that are neither
RemoteInit ==
    /\ ManagerInit
    /\ tx = NoTx
    /\ store = <<>>
    /\ fs = <<>>
    /\ mat = NoMat
    /\ resolution = NoResolution
    /\ tasks = <<>>
    /\ answer = NoAnswer
    /\ \E index_entry \in {None, Some(IndexBytes("e1")), Some(GarbageBytes)} :
       \E meta_entry \in {None, Some(MetaBytes(MetaRef)), Some(GarbageBytes)} :
       \E server_index \in {IndexBytes(e) : e \in Editions} \cup {GarbageBytes} :
       \E server_meta \in {MetaBytes(MetaRef), GarbageBytes} :
           remote = [index_entry |-> index_entry, meta_entry |-> meta_entry,
                     server_index |-> server_index, server_meta |-> server_meta,
                     call |-> NoRemoteCall]

\* a call and what it returned: whether its put_index(base_url, &[]) was made,
\* what its other port calls did, the entries before it, the URLs it fetched
RemoteCalled(op, invalidated, ports, outcome) ==
    [op |-> op, invalidated |-> invalidated, ports |-> ports, index_before |-> remote.index_entry,
     meta_before |-> remote.meta_entry, gets |-> outcome.gets,
     result |-> outcome.result]

GetIndex ==
    \E ports \in PortOutcomes :
        LET outcome == get_index(remote.index_entry, remote.server_index, ports)
        IN  /\ remote' = [remote EXCEPT !.index_entry = outcome.entry,
                                        !.call = RemoteCalled("get_index", FALSE, ports, outcome)]
            /\ UNCHANGED notRemote

UpdateIndex ==
    \E invalidated \in BOOLEAN :
    \E ports \in PortOutcomes :
        LET outcome == update_index(remote.index_entry, remote.server_index,
                                    invalidated, ports)
        IN  /\ remote' = [remote EXCEPT
                             !.index_entry = outcome.entry,
                             !.call = RemoteCalled("update_index", invalidated, ports,
                                                   outcome)]
            /\ UNCHANGED notRemote

GetPackage ==
    \E ports \in PortOutcomes :
        LET outcome == RemoteGetPackage(MetaRef, remote.meta_entry,
                                        remote.server_meta, ports)
        IN  /\ remote' = [remote EXCEPT !.meta_entry = outcome.entry,
                                        !.call = RemoteCalled("get_package", FALSE, ports, outcome)]
            /\ UNCHANGED notRemote

\* the server publishes another edition of the index
ServerPublishes ==
    \E e \in Editions :
        /\ remote.server_index # IndexBytes(e)
        /\ remote' = [remote EXCEPT !.server_index = IndexBytes(e),
                                    !.call = NoRemoteCall]
        /\ UNCHANGED notRemote

RemoteNext == GetIndex \/ UpdateIndex \/ GetPackage \/ ServerPublishes

RemoteSpec == RemoteInit /\ [][RemoteNext]_vars

----------------------------------------------------------------------------
(* verify_package_integrity over a package directory of the store that     *)
(* holds any part of the package: meta.toml or not, an instlist or not,    *)
(* and any of the files the install lists name.                            *)

\* the source fields of the install lists
SourceFiles == {"bin/app", "bin/tool", "conf"}

VerifiedPackage == PackageId("app", 1)

\* verify_package_integrity without the test of meta.toml
verify_package_integrity_without_meta(package_id, read_ok) ==
    IF ~store[package_id].exists THEN Ok(FALSE)
    ELSE IF ~read_ok THEN Err("IoError")
    ELSE LET links == LoadPackageInstlist(package_id)
         IN  Ok(\A i \in 1..Len(links) : links[i].source[2] \in store[package_id].sources)

\* verify_package_integrity: Ok(false) when meta.toml or instlist is missing,
\* the error of load_package_instlist, Ok(false) at the first source that
\* does not exist, else Ok(true)
verify_package_integrity(package_id, read_ok) ==
    IF ~store[package_id].meta \/ ~store[package_id].exists THEN Ok(FALSE)
    ELSE IF ~read_ok THEN Err("IoError")
    ELSE LET links == LoadPackageInstlist(package_id)
         IN  Ok(\A i \in 1..Len(links) : links[i].source[2] \in store[package_id].sources)

IntegrityInit ==
    /\ ManagerInit
    /\ tx = NoTx
    /\ store \in [{VerifiedPackage} ->
                    {[exists |-> file.exists, lines |-> file.lines, meta |-> meta,
                      sources |-> sources] :
                        file \in InstlistFiles, meta \in BOOLEAN,
                        sources \in SUBSET SourceFiles}]
    /\ fs = <<>>
    /\ mat = NoMat
    /\ resolution = NoResolution
    /\ tasks = <<>>
    /\ remote = <<>>
    /\ answer = NoAnswer

VerifyPackageIntegrity ==
    \E read_ok \in BOOLEAN :
        /\ mat' = [called |-> TRUE, op |-> "verify_package_integrity",
                   package_id |-> VerifiedPackage,
                   result |-> verify_package_integrity(VerifiedPackage, read_ok)]
        /\ UNCHANGED <<store, fs, writes, notFiles>>

\* a file of the package directory is deleted from outside
StoreLoses ==
    /\ writes < MaxWrites
    /\ writes' = writes + 1
    /\ \E lost \in SourceFiles \cup {"meta.toml", "instlist"} :
          store' = [store EXCEPT ![VerifiedPackage] =
                      [exists |-> @.exists /\ lost # "instlist",
                       lines |-> IF lost = "instlist" THEN <<>> ELSE @.lines,
                       meta |-> @.meta /\ lost # "meta.toml",
                       sources |-> @.sources \ {lost}]]
    /\ mat' = NoMat
    /\ UNCHANGED <<fs, ledgerVars, paths, cache, managerVars, dl, tx, resolution, tasks,
                   remote, answer>>

IntegrityNext == VerifyPackageIntegrity \/ StoreLoses

IntegritySpec == IntegrityInit /\ [][IntegrityNext]_vars

----------------------------------------------------------------------------
(* install, lines 78-95, one install_single_package call per step, over    *)
(* the resolutions of ResolveSpec.  install_single_package returns Ok as   *)
(* its body stands; the loop is followed for an Err as well, which is what *)
(* the `?` after each call is there for.  One install is followed.         *)

\* the calls of install_single_package with the main package put first
MainFirstSequence(deps, package) ==
    <<[role |-> "main", package |-> package]>> \o
        [i \in 1..Len(deps) |-> [role |-> "dependency", package |-> deps[i]]]

\* the calls of install_single_package, in order: `for pkg in dependencies`,
\* then the main package
InstallSequence(deps, package) ==
    [i \in 1..Len(deps) |-> [role |-> "dependency", package |-> deps[i]]] \o
        <<[role |-> "main", package |-> package]>>

\* what a call of install_single_package may return to the `?`
SingleInstallResults(package) ==
    {install_single_package(package), Err("InstallationError")}

\* install reaches line 78 with the package and its resolved dependencies
InstallLoopStart ==
    /\ pc = "idle"
    /\ frame = NoFrame
    /\ resolution.called
    /\ resolution.result.ok
    /\ pc' = "i_install"
    /\ frame' = [ref |-> resolution.ref, package |-> resolution.package,
                 dependencies |-> resolution.result.val,
                 sequence |-> InstallSequence(resolution.result.val, resolution.package),
                 next |-> 1, log |-> <<>>]
    /\ result' = NoResult
    /\ UNCHANGED <<ledgerVars, paths, cache, published, sw, call, snap, base, dl, writes>>
    /\ UNCHANGED auxVars

\* one install_single_package(pkg).await?: the call starts and returns; an Err
\* ends install, the Ok of the last call ends the loop
InstallTurn ==
    /\ pc = "i_install"
    /\ LET turn == frame.sequence[frame.next]
       IN \E res \in SingleInstallResults(turn.package) :
            /\ frame' = [frame EXCEPT
                  !.next = @ + 1,
                  !.log = @ \o <<[event |-> "start", role |-> turn.role,
                                  id |-> turn.package.id],
                                 [event |-> IF res.ok THEN "ok" ELSE "err",
                                  role |-> turn.role, id |-> turn.package.id]>>]
            /\ IF ~res.ok
               THEN /\ pc' = "idle"
                    /\ result' = Returned(res)
               ELSE IF frame.next = Len(frame.sequence)
               THEN /\ pc' = "idle"
                    /\ result' = Returned(Ok([package_id |-> frame.package.id,
                                              installed_files |-> <<>>,
                                              symlinks_created |-> 0]))
               ELSE /\ pc' = "i_install"
                    /\ result' = result
    /\ UNCHANGED <<ledgerVars, paths, cache, published, sw, call, snap, base, dl, writes>>
    /\ UNCHANGED auxVars

InstallOrderNext ==
    \/ \E r \in RepositoryPackages : frame = NoFrame /\ ResolveFor(r)
    \/ InstallLoopStart
    \/ InstallTurn

InstallOrderSpec == ResolveInit /\ [][InstallOrderNext]_vars

----------------------------------------------------------------------------
(* Strings as sequences of characters, and semver::Version strings without *)
(* pre-release or build parts: MAJOR.MINOR.PATCH in decimal.               *)

DigitChars == <<"0", "1", "2", "3", "4", "5", "6", "7", "8", "9">>

IsDigit(c) == \E d \in 1..10 : DigitChars[d] = c

DigitValue(c) == (CHOOSE d \in 1..10 : DigitChars[d] = c) - 1

\* str::split(sep): the pieces between the separators, empty pieces included
RECURSIVE SplitOn(_, _)
SplitOn(s, sep) ==
    IF \A i \in 1..Len(s) : s[i] # sep
    THEN <<s>>
    ELSE LET first == CHOOSE i \in 1..Len(s) :
                         s[i] = sep /\ \A j \in 1..(i - 1) : s[j] # sep
         IN  <<SubSeq(s, 1, first - 1)>> \o SplitOn(SubSeq(s, first + 1, Len(s)), sep)

\* the number a run of digits writes
RECURSIVE DecimalValue(_)
DecimalValue(digits) ==
    IF digits = <<>> THEN 0
    ELSE 10 * DecimalValue(SubSeq(digits, 1, Len(digits) - 1))
            + DigitValue(digits[Len(digits)])

\* a numeric identifier of semver: digits, not empty, no leading zero
IsNumericIdentifier(part) ==
    /\ part # <<>>
    /\ \A i \in 1..Len(part) : IsDigit(part[i])
    /\ Len(part) > 1 => part[1] # "0"

\* u64 Display
RECURSIVE DecimalString(_)
DecimalString(n) ==
    IF n < 10 THEN <<DigitChars[n + 1]>>
    ELSE DecimalString(n \div 10) \o <<DigitChars[(n % 10) + 1]>>

\* semver::Version::parse
VersionParse(s) ==
    LET parts == SplitOn(s, ".")
    IN  IF Len(parts) = 3 /\ \A i \in 1..3 : IsNumericIdentifier(parts[i])
        THEN Ok([major |-> DecimalValue(parts[1]), minor |-> DecimalValue(parts[2]),
                 patch |-> DecimalValue(parts[3])])
        ELSE Err("semver::Error")

\* semver::Version Display
VersionToString(v) ==
    DecimalString(v.major) \o <<".">> \o DecimalString(v.minor) \o <<".">>
        \o DecimalString(v.patch)

\* semver::Version Ord: major, then minor, then patch
VersionLess(a, b) ==
    \/ a.major < b.major
    \/ a.major = b.major /\ a.minor < b.minor
    \/ a.major = b.major /\ a.minor = b.minor /\ a.patch < b.patch

----------------------------------------------------------------------------
(* RepositoryIndex::latest_satisfying over indexes whose version lists are *)
(* in any order and hold strings that are not versions.                    *)

\* the strings an index lists as versions
VersionStrings ==
    {<<"1", ".", "0", ".", "0">>, <<"1", ".", "2", ".", "0">>,
     <<"1", ".", "1", "0", ".", "0">>, <<"2", ".", "0", ".", "0">>,
     <<"1", ".", "0">>, <<"l", "a", "t", "e", "s", "t">>}

MaxVersions == 3

\* the version lists of an entry: any strings in any order, repeated or not
VersionLists == UNION {[1..n -> VersionStrings] : n \in 0..MaxVersions}

\* the versions the strings parse to
ParsedVersions == {VersionParse(s).val : s \in {x \in VersionStrings : VersionParse(x).ok}}

\* semver::VersionReq as the set of versions it matches: *, ^1, =1.2.0, >=2.0.0, >2.0.0
Requirements ==
    {ParsedVersions,
     {v \in ParsedVersions : v.major = 1},
     {v \in ParsedVersions : v = [major |-> 1, minor |-> 2, patch |-> 0]},
     {v \in ParsedVersions : v.major >= 2},
     {}}

\* RepositoryIndex::get_versions: the versions of the first entry of that name
get_versions(index, pkg) ==
    IF \A i \in 1..Len(index.packages) : index.packages[i].name # pkg
    THEN None
    ELSE Some(index.packages[
                 CHOOSE i \in 1..Len(index.packages) :
                    /\ index.packages[i].name = pkg
                    /\ \A j \in 1..(i - 1) : index.packages[j].name # pkg].versions)

\* filter_map(|v| Version::parse(v).ok()): the versions of the strings that parse
RECURSIVE ParsedOf(_)
ParsedOf(versions) ==
    IF versions = <<>> THEN <<>>
    ELSE (IF VersionParse(Head(versions)).ok
          THEN <<VersionParse(Head(versions)).val>> ELSE <<>>) \o ParsedOf(Tail(versions))

\* the parsed list left in the order of the index
Unsorted(parsed) == parsed

\* Vec::sort: ascending
RECURSIVE SortVersions(_)
SortVersions(parsed) ==
    IF parsed = <<>> THEN <<>>
    ELSE LET sorted == SortVersions(SubSeq(parsed, 1, Len(parsed) - 1))
             x == parsed[Len(parsed)]
             k == Cardinality({i \in 1..Len(sorted) : ~VersionLess(x, sorted[i])})
         IN  SubSeq(sorted, 1, k) \o <<x>> \o SubSeq(sorted, k + 1, Len(sorted))

\* into_iter().rev().find(|v| dep.matches_version(v)): the last match of the list
LastMatch(list, dep) ==
    IF \A i \in 1..Len(list) : ~matches_version(dep, list[i])
    THEN None
    ELSE Some(list[CHOOSE i \in 1..Len(list) :
                      /\ matches_version(dep, list[i])
                      /\ \A j \in (i + 1)..Len(list) : ~matches_version(dep, list[j])])

\* RepositoryIndex::latest_satisfying
latest_satisfying(index, dep) ==
    LET versions == get_versions(index, dep.name)
    IN  IF ~versions.some THEN None
        ELSE LET found == LastMatch(SortVersions(ParsedOf(versions.data)), dep)
             IN  IF found.some THEN Some(VersionToString(found.data)) ELSE None

\* an index with an entry for app and, after it, an entry for libx
LatestSatisfying ==
    \E versions \in VersionLists :
    \E name \in {"libx", "core"} :
    \E requirement \in Requirements :
        LET index == [name |-> "repo", url |-> "base",
                      packages |-> <<[name |-> "app",
                                      versions |-> <<VersionToString(
                                          [major |-> 1, minor |-> 0, patch |-> 0])>>],
                                     [name |-> "libx", versions |-> versions]>>]
            dep == [name |-> name, constraint |-> requirement]
        IN  /\ answer = NoAnswer
            /\ answer' = [of |-> "latest_satisfying", index |-> index, dep |-> dep,
                          result |-> latest_satisfying(index, dep)]
            /\ UNCHANGED notAnswer

IndexSpec == Init /\ [][LatestSatisfying]_vars

----------------------------------------------------------------------------
(* PackageReference as text: Display writes "{name}@{version}" and         *)
(* TryFrom<&str> reads it back.  PackageReference::new takes any String as *)
(* the name, so the names are all strings over a small alphabet.           *)

NameChars == {"a", "-", "@"}

MaxNameLen == 3

ReferenceNames == UNION {[1..n -> NameChars] : n \in 0..MaxNameLen}

ReferenceVersions ==
    {[major |-> 1, minor |-> 0, patch |-> 0], [major |-> 1, minor |-> 10, patch |-> 0],
     [major |-> 2, minor |-> 0, patch |-> 0], [major |-> 0, minor |-> 1, patch |-> 2]}

\* impl Display for PackageReference
to_string(r) == r.name \o <<"@">> \o VersionToString(r.version)

\* impl TryFrom<&str> for PackageReference: exactly two pieces around '@', the
\* second a version
try_from(s) ==
    LET parts == SplitOn(s, "@")
    IN  IF Len(parts) # 2
        THEN Err("Invalid package reference format")
        ELSE IF ~VersionParse(parts[2]).ok
             THEN Err("Invalid version in package reference")
             ELSE Ok([name |-> parts[1], version |-> VersionParse(parts[2]).val])

\* a reference is written and read back
RoundTrip ==
    \E name \in ReferenceNames, version \in ReferenceVersions :
        LET r == [name |-> name, version |-> version]
        IN  /\ answer = NoAnswer
            /\ answer' = [of |-> "try_from", ref |-> r, text |-> to_string(r),
                          result |-> try_from(to_string(r))]
            /\ UNCHANGED notAnswer

ReferenceSpec == Init /\ [][RoundTrip]_vars

----------------------------------------------------------------------------
(* InstallationFactory: an installation is created, files and symlinks are *)
(* recorded on it, and validate_activation is asked about it.              *)

\* symlinks recorded on one installation
MaxLinks == 2

RecordedFiles == SUBSET {"/store/bin/app", "/store/lib/libx.so"}

RecordedLinks ==
    UNION {[1..n -> {InstlistTarget(name) : name \in Names}] : n \in 0..MaxLinks}

\* a validation that rejects only an installation with neither files nor symlinks
validate_activation_when_both_empty(installation) ==
    IF installation.symlinks = <<>> /\ installation.installed_files = {}
    THEN Err("ValidationError")
    ELSE Ok(<<>>)

\* InstallationFactory::validate_activation
validate_activation(installation) ==
    IF installation.installed_files = {}
    THEN Err("ValidationError")
    ELSE IF installation.symlinks = <<>> /\ installation.installed_files = {}
         THEN Err("ValidationError")
         ELSE Ok(<<>>)

RECURSIVE AddSymlinks(_, _)
\* add_symlink for each link in turn
AddSymlinks(installation, links) ==
    IF links = <<>>
    THEN installation
    ELSE AddSymlinks(add_symlink(installation, Head(links)), Tail(links))

RECURSIVE AddInstalledFiles(_, _)
\* add_installed_file for each path
AddInstalledFiles(installation, files) ==
    IF files = {}
    THEN installation
    ELSE LET path == CHOOSE p \in files : TRUE
         IN  AddInstalledFiles(add_installed_file(installation, path), files \ {path})

\* create, then the recordings, then validate_activation
ValidateActivation ==
    \E id \in InstallationIds, package_id \in PackageIds,
       files \in RecordedFiles, links \in RecordedLinks :
        LET created == InstallationFactoryCreate(id, package_id)
            installation == AddSymlinks(AddInstalledFiles(created, files), links)
        IN  /\ answer = NoAnswer
            /\ answer' = [of |-> "validate_activation", created |-> created,
                          installation |-> installation,
                          result |-> validate_activation(installation)]
            /\ UNCHANGED notAnswer

FactorySpec == Init /\ [][ValidateActivation]_vars

----------------------------------------------------------------------------
(* The latest version of a name: the remote repository answers from the    *)
(* versions of the index entry, the local repository from the names of the *)
(* version directories under packages_dir/{name}.                          *)

\* Vec::last
Last(list) == IF list = <<>> THEN None ELSE Some(list[Len(list)])

\* RemotePackagesRepository::get_package_versions, once get_index has succeeded
remote_get_package_versions(index, package_name) ==
    LET versions == get_versions(index, package_name)
    IN  IF versions.some THEN Ok(versions.data) ELSE Err("PackageNotFound")

\* RemotePackagesRepository::get_latest_version
remote_get_latest_version(index, package_name) ==
    LET versions == remote_get_package_versions(index, package_name)
    IN  IF ~versions.ok THEN versions
        ELSE IF Last(versions.val).some
             THEN Ok(Last(versions.val).data) ELSE Err("PackageNotFound")

\* RemotePackagesRepository::search_packages, the reference it asks get_package
\* for in the turn of one matching entry: none for an entry without versions,
\* and the whole search fails when the entry's last string is no version
search_packages_reference(entry) ==
    IF ~Last(entry.versions).some
    THEN Ok(None)
    ELSE IF ~VersionParse(Last(entry.versions).data).ok
         THEN Err("ValidationError")
         ELSE Ok(Some([name |-> entry.name,
                       version |-> VersionParse(Last(entry.versions).data).val]))

\* LocalPackagesRepository::get_package_versions: the directory names that parse,
\* sorted by the versions they parse to
local_get_package_versions(entries) ==
    LET sorted == SortVersions(ParsedOf(entries))
    IN  Ok([i \in 1..Len(sorted) |->
              CHOOSE s \in {entries[j] : j \in 1..Len(entries)} :
                  VersionParse(s).ok /\ VersionParse(s).val = sorted[i]])

\* LocalPackagesRepository::get_latest_version
local_get_latest_version(entries) ==
    LET versions == local_get_package_versions(entries)
    IN  IF Last(versions.val).some
        THEN Ok(Last(versions.val).data) ELSE Err("PackageNotFound")

\* the remote repository is asked for the latest version of a name of its index
RemoteGetLatestVersion ==
    \E versions \in VersionLists, package_name \in {"libx", "core"} :
        LET entry == [name |-> "libx", versions |-> versions]
            index == [name |-> "repo", url |-> "base", packages |-> <<entry>>]
        IN  /\ answer = NoAnswer
            /\ answer' = [of |-> "remote_get_latest_version",
                          package_name |-> package_name, versions |-> versions,
                          result |-> remote_get_latest_version(index, package_name),
                          searched |-> search_packages_reference(entry)]
            /\ UNCHANGED notAnswer

\* the local repository is asked; read_dir lists the directories in any order
LocalGetLatestVersion ==
    \E entries \in VersionLists :
        /\ answer = NoAnswer
        /\ answer' = [of |-> "local_get_latest_version", package_name |-> "libx",
                      versions |-> entries,
                      result |-> local_get_latest_version(entries),
                      searched |-> Ok(None)]
        /\ UNCHANGED notAnswer

LatestNext ==
    \/ RemoteGetLatestVersion
    \/ LocalGetLatestVersion

LatestSpec == Init /\ [][LatestNext]_vars

----------------------------------------------------------------------------
(* Target in the ledger: the packages table keeps two text columns,        *)
(* target_os and target_arch; target_to_strings writes them and            *)
(* strings_to_target reads them back.                                      *)

\* the strings a Custom variant may hold
CustomStrings ==
    {"linux", "macos", "x86_64", "aarch64", "unknown", "freebsd", "windows", "riscv64", ""}

Known(kind) == [kind |-> kind, text |-> ""]
Custom(text) == [kind |-> "Custom", text |-> text]

\* enum OperatingSystem {Linux, MacOS, Custom(String)}
OperatingSystem == {Known("Linux"), Known("MacOS")} \cup {Custom(s) : s \in CustomStrings}

\* enum Architecture {X86_64, Aarch64, Custom(String)}
Architecture == {Known("X86_64"), Known("Aarch64")} \cup {Custom(s) : s \in CustomStrings}

\* DatabaseRepository::target_to_strings: the four known pairs, a pair of Customs,
\* and "unknown" twice for every other pair
target_to_strings(target) ==
    CASE target.os.kind = "Linux" /\ target.arch.kind = "X86_64" -> <<"linux", "x86_64">>
      [] target.os.kind = "Linux" /\ target.arch.kind = "Aarch64" -> <<"linux", "aarch64">>
      [] target.os.kind = "MacOS" /\ target.arch.kind = "X86_64" -> <<"macos", "x86_64">>
      [] target.os.kind = "MacOS" /\ target.arch.kind = "Aarch64" -> <<"macos", "aarch64">>
      [] target.os.kind = "Custom" /\ target.arch.kind = "Custom" ->
            <<target.os.text, target.arch.text>>
      [] OTHER -> <<"unknown", "unknown">>

\* DatabaseRepository::strings_to_target: the four known pairs, else two Customs
strings_to_target(os, arch) ==
    CASE os = "linux" /\ arch = "x86_64" -> [os |-> Known("Linux"), arch |-> Known("X86_64")]
      [] os = "linux" /\ arch = "aarch64" -> [os |-> Known("Linux"), arch |-> Known("Aarch64")]
      [] os = "macos" /\ arch = "x86_64" -> [os |-> Known("MacOS"), arch |-> Known("X86_64")]
      [] os = "macos" /\ arch = "aarch64" -> [os |-> Known("MacOS"), arch |-> Known("Aarch64")]
      [] OTHER -> [os |-> Custom(os), arch |-> Custom(arch)]

\* a target is written to the two columns and read back
TargetRoundTrip ==
    \E os \in OperatingSystem, arch \in Architecture :
        LET target == [os |-> os, arch |-> arch]
            columns == target_to_strings(target)
        IN  /\ answer = NoAnswer
            /\ answer' = [of |-> "strings_to_target", target |-> target,
                          columns |-> columns,
                          result |-> strings_to_target(columns[1], columns[2])]
            /\ UNCHANGED notAnswer

TargetSpec == Init /\ [][TargetRoundTrip]_vars

----------------------------------------------------------------------------
(* The installation tables: save_installation writes one installations row *)
(* and rewrites the installed_files and symlinks rows of the installation, *)
(* get_installation builds the Installation back from them.  The rows keep *)
(* the columns the conversions touch; sizes, checksums and timestamps,     *)
(* which are written and read as they are, are left out.                   *)

\* symlinks of one installation
MaxSymlinks == 2

FileTypes == {"Regular", "Directory", "Symlink", "Executable"}

SymlinkTypes == {"File", "Directory"}

\* FileMetadata of the one file an installation may record
FileMetadatas ==
    [path : {"/store/bin/app"}, file_type : FileTypes,
     permissions : [read : {TRUE}, write : {TRUE}, execute : BOOLEAN]]

\* Symlink {source, target, link_type, metadata {owner?, ..}}; owner "" is None
Symlinks ==
    [source : {"bin/app"}, target : {"/home/u/bin/app", "/home/u/bin/tool"},
     link_type : SymlinkTypes, owner : {"", "root"}]

\* the package ids an installation may carry
InstalledIds ==
    [name : {<<"a">>, <<"a", "@", "b">>}, version : {[major |-> 1, minor |-> 0, patch |-> 0]}]

SavedInstallations ==
    [id : InstallationIds, package_id : InstalledIds, active : BOOLEAN,
     installed_files : {{}} \cup {{f} : f \in FileMetadatas},
     symlinks : UNION {[1..n -> Symlinks] : n \in 0..MaxSymlinks}]

\* file_type_to_string
file_type_to_string(file_type) ==
    CASE file_type = "Regular" -> "regular"
      [] file_type = "Directory" -> "directory"
      [] file_type = "Symlink" -> "symlink"
      [] file_type = "Executable" -> "executable"

\* string_to_file_type
string_to_file_type(file_type_str) ==
    CASE file_type_str = "directory" -> "Directory"
      [] file_type_str = "symlink" -> "Symlink"
      [] file_type_str = "executable" -> "Executable"
      [] OTHER -> "Regular"

\* symlink_type_to_string
symlink_type_to_string(link_type) ==
    CASE link_type = "File" -> "file"
      [] link_type = "Directory" -> "directory"

\* string_to_symlink_type
string_to_symlink_type(link_type_str) ==
    CASE link_type_str = "directory" -> "Directory"
      [] OTHER -> "File"

\* save_installation on tables: INSERT OR REPLACE the installations row, DELETE and
\* INSERT the installed_files rows, DELETE and INSERT the symlinks rows in the
\* order of the Vec; the symlinks table is kept in rowid order
save_installation_rows(db, installation) ==
    [installations |->
        {row \in db.installations : row.installation_id # installation.id}
            \cup {[installation_id |-> installation.id,
                   package_id |-> to_string(installation.package_id),
                   active |-> installation.active, install_mode |-> "symlink"]},
     installed_files |->
        {row \in db.installed_files : row.installation_id # installation.id}
            \cup {[package_id |-> "", installation_id |-> installation.id,
                   file_path |-> f.path,
                   permissions_read |-> f.permissions.read,
                   permissions_write |-> f.permissions.write,
                   permissions_execute |-> f.permissions.execute,
                   file_type |-> file_type_to_string(f.file_type)] :
                    f \in installation.installed_files},
     symlinks |->
        SelectSeq(db.symlinks, LAMBDA row : row.installation_id # installation.id)
            \o [i \in 1..Len(installation.symlinks) |->
                    [installation_id |-> installation.id,
                     source_path |-> installation.symlinks[i].source,
                     target_path |-> installation.symlinks[i].target,
                     link_type |-> symlink_type_to_string(installation.symlinks[i].link_type)]]]

\* load_installed_files: one FileMetadata per row of the installation
load_installed_files(db, installation_id) ==
    {[path |-> row.file_path, file_type |-> string_to_file_type(row.file_type),
      permissions |-> [read |-> row.permissions_read, write |-> row.permissions_write,
                       execute |-> row.permissions_execute]] :
        row \in {x \in db.installed_files : x.installation_id = installation_id}}

\* load_symlinks: one Symlink per row of the installation in table order, its
\* metadata the default but for created_at
load_symlinks(db, installation_id) ==
    LET rows == SelectSeq(db.symlinks, LAMBDA row : row.installation_id = installation_id)
    IN  [i \in 1..Len(rows) |->
            [source |-> rows[i].source_path, target |-> rows[i].target_path,
             link_type |-> string_to_symlink_type(rows[i].link_type), owner |-> ""]]

\* get_installation: the row by installation_id; its package_id text is split at
\* '@', the first piece the name and the second parsed as the version with
\* unwrap, then the files and symlinks are loaded
get_installation(db, installation_id) ==
    LET rows == {row \in db.installations : row.installation_id = installation_id}
    IN  IF rows = {}
        THEN Ok(None)
        ELSE LET row == CHOOSE x \in rows : TRUE
                 parts == SplitOn(row.package_id, "@")
                 version == VersionParse(IF Len(parts) >= 2 THEN parts[2]
                                         ELSE <<"0", ".", "0", ".", "0">>)
             IN  IF ~version.ok
                 THEN Err("panic")
                 ELSE Ok(Some([id |-> row.installation_id,
                               package_id |-> [name |-> parts[1], version |-> version.val],
                               active |-> row.active,
                               installed_files |->
                                   load_installed_files(db, installation_id),
                               symlinks |-> load_symlinks(db, installation_id)]))

\* the tables before the call: the rows of an installation u2 saved earlier
EarlierRows ==
    save_installation_rows(
        [installations |-> {}, installed_files |-> {}, symlinks |-> <<>>],
        [id |-> "u2",
         package_id |-> [name |-> <<"a">>, version |-> [major |-> 1, minor |-> 0, patch |-> 0]],
         active |-> TRUE, installed_files |-> {},
         symlinks |-> <<[source |-> "bin/app", target |-> "/home/u/bin/app",
                         link_type |-> "File", owner |-> ""]>>])

\* an installation is saved, saved again, and read back
SaveAndGetInstallation ==
    \E installation \in SavedInstallations :
        LET once == save_installation_rows(EarlierRows, installation)
        IN  /\ answer = NoAnswer
            /\ answer' = [of |-> "get_installation", installation |-> installation,
                          rows |-> once,
                          rows_twice |-> save_installation_rows(once, installation),
                          result |-> get_installation(once, installation.id)]
            /\ UNCHANGED notAnswer

TablesSpec == Init /\ [][SaveAndGetInstallation]_vars

----------------------------------------------------------------------------
(* The download step of install as the calls it makes on its ports: for    *)
(* each package of the list download_package_if_needed asks the cache,     *)
(* and for a package the cache lacks it publishes, has the repository      *)
(* download the archive, stores the archive and publishes again.  The      *)
(* remote repository's download_package is itself a client of the cache.   *)

PortCall(by, op) == [by |-> by, op |-> op]

\* RemotePackagesRepository::download_package, lines 250-261, on a cache miss
RemoteDownloadCalls ==
    <<PortCall("repository", "cache.get_package"), PortCall("repository", "network.get"),
      PortCall("repository", "cache.put_package")>>

\* LocalPackagesRepository::download_package, lines 251-268
LocalDownloadCalls ==
    <<PortCall("repository", "file_system.exists"),
      PortCall("repository", "create_package_archive")>>

\* download_package_if_needed, lines 184-206: the calls for a package that
\* cache.has_package does not report
DownloadCalls(repository) ==
    <<PortCall("manager", "publish DownloadStarted"),
      PortCall("manager", "repository.download_package")>>
        \o (IF repository = "remote" THEN RemoteDownloadCalls ELSE LocalDownloadCalls)
        \o <<PortCall("manager", "cache.put_package"),
             PortCall("manager", "publish DownloadCompleted")>>

\* the error a failing call is returned as
CallError(op) ==
    CASE op \in {"publish DownloadStarted", "publish DownloadCompleted"} -> "EventError"
      [] op \in {"cache.get_package", "cache.put_package"} -> "CacheError"
      [] op = "network.get" -> "NetworkError"
      [] op = "file_system.exists" -> "PackageNotFound"
      [] OTHER -> "FileSystemError"

\* the calls made for the package r, the first n of them when the n-th fails
CallsFor(r, calls, n) ==
    <<[by |-> "manager", op |-> "cache.has_package", ref |-> r]>>
        \o [j \in 1..n |-> [by |-> calls[j].by, op |-> calls[j].op, ref |-> r]]

\* the loop of install, lines 74-76, from the i-th package on: the calls made and
\* the result; failure names the package and the call that returns an error
RECURSIVE DownloadLoop(_, _, _, _, _)
DownloadLoop(all_packages, i, cached, repository, failure) ==
    IF i > Len(all_packages)
    THEN [log |-> <<>>, result |-> Ok(<<>>)]
    ELSE LET r == from_package(all_packages[i])
             calls == DownloadCalls(repository)
             rest == DownloadLoop(all_packages, i + 1, cached, repository, failure)
         IN  IF r \in cached
             THEN [log |-> CallsFor(r, calls, 0) \o rest.log, result |-> rest.result]
             ELSE IF failure.at = i
                  THEN [log |-> CallsFor(r, calls, failure.call),
                        result |-> Err(CallError(calls[failure.call].op))]
                  ELSE [log |-> CallsFor(r, calls, Len(calls)) \o rest.log,
                        result |-> rest.result]

\* the lists install builds: the package, then its resolved dependencies
DownloadLists ==
    {<<PackageFactoryCreate("app", v)>> \o deps :
        v \in Versions, deps \in {<<>>, <<PackageFactoryCreate("libx", 1)>>}}

\* which call fails, if any: the manager's calls and, within download_package,
\* those that return a Result
DownloadFaults(all_packages, repository) ==
    {[at |-> 0, call |-> 0]}
        \cup {[at |-> i, call |-> j] :
                i \in 1..Len(all_packages),
                j \in {k \in 1..Len(DownloadCalls(repository)) :
                         DownloadCalls(repository)[k].op
                            \notin {"repository.download_package"}}}

\* install runs its download step
DownloadPackages ==
    \E all_packages \in DownloadLists, cached \in SUBSET Catalog,
       repository \in {"remote", "local"} :
        \E failure \in DownloadFaults(all_packages, repository) :
            LET run == DownloadLoop(all_packages, 1, cached, repository, failure)
            IN  /\ answer = NoAnswer
                /\ answer' = [of |-> "download_packages", all_packages |-> all_packages,
                              cached |-> cached, repository |-> repository,
                              log |-> run.log, result |-> run.result]
                /\ UNCHANGED notAnswer

DownloadSpec == Init /\ [][DownloadPackages]_vars

----------------------------------------------------------------------------
(* The package store on disk.  A directory is a path under packages_dir, a *)
(* sequence of components; the store maps each directory that holds a      *)
(* meta.toml to the name and version that file declares.  The files        *)
(* repository and the local repository each compute the directory of a     *)
(* package on their own.                                                   *)

StoreNames == {<<"a">>, <<"b">>}

StoreVersions == {[major |-> 1, minor |-> 0, patch |-> 0], [major |-> 2, minor |-> 0, patch |-> 0]}

StoreReferences == [name : StoreNames, version : StoreVersions]

\* PackageId::new(name, version).as_str(): "{name}@{version}"
PackageIdText(r) == r.name \o <<"@">> \o VersionToString(r.version)

\* PackageFilesRepository::get_package_path: packages_dir.join(package_id.as_str())
get_package_path(r) == <<PackageIdText(r)>>

\* LocalPackagesRepository::get_package_meta_path, without the file name:
\* packages_dir.join(name).join(version.to_string())
local_package_dir(r) == <<r.name, VersionToString(r.version)>>

\* a meta.toml is written into a directory
WithMeta(dir, meta) ==
    [d \in DOMAIN store \cup {dir} |-> IF d = dir THEN meta ELSE store[d]]

\* PackageFilesRepository::extract_package: the archive, whose meta.toml declares
\* a name and a version, is unpacked into get_package_path
ExtractPackage(r, meta) ==
    /\ answer = NoAnswer
    /\ writes < MaxWrites
    /\ writes' = writes + 1
    /\ store' = WithMeta(get_package_path(r), meta)
    /\ UNCHANGED <<answer, notFiles, fs, mat>>

\* a package directory is put where the local repository looks for it
PlacePackage(r, meta) ==
    /\ answer = NoAnswer
    /\ writes < MaxWrites
    /\ writes' = writes + 1
    /\ store' = WithMeta(local_package_dir(r), meta)
    /\ UNCHANGED <<answer, notFiles, fs, mat>>

\* LocalPackagesRepository::get_package on the store: PackageNotFound unless the
\* meta.toml exists, then the package of the metadata's name and the reference's
\* version
local_get_package(r) ==
    IF local_package_dir(r) \notin DOMAIN store
    THEN Err("PackageNotFound")
    ELSE LET meta == store[local_package_dir(r)]
             made == [name |-> meta.name, version |-> r.version]
         IN  Ok([id |-> PackageIdText(made), name |-> made.name,
                 version |-> made.version])

\* the local repository is asked for a reference
LocalGetPackage(r) ==
    /\ answer = NoAnswer
    /\ answer' = [of |-> "local_get_package", ref |-> r, id |-> PackageIdText(r),
                  extracted |-> get_package_path(r) \in DOMAIN store,
                  result |-> local_get_package(r)]
    /\ UNCHANGED notAnswer

\* the remote repository is asked for a reference and the server's meta.toml
\* declares some package
RemoteGetPackageOf(r, declared) ==
    /\ answer = NoAnswer
    /\ answer' = [of |-> "remote_get_package", ref |-> r, id |-> RefId(r),
                  extracted |-> FALSE,
                  result |-> RemoteGetPackage(r, None, MetaBytes(declared),
                                              AllPortsSucceed).result]
    /\ UNCHANGED notAnswer

StoreNext ==
    \/ \E r \in StoreReferences, meta \in StoreReferences : ExtractPackage(r, meta)
    \/ \E r \in StoreReferences, meta \in StoreReferences : PlacePackage(r, meta)
    \/ \E r \in StoreReferences : LocalGetPackage(r)
    \/ \E r \in PackageReference, declared \in PackageReference :
          RemoteGetPackageOf(r, declared)

StoreSpec == Init /\ [][StoreNext]_vars

----------------------------------------------------------------------------
(* Claims *)

EventsOfType(type) == {i \in 1..Len(published) : published[i].type = type}

\* C1: within one install(r) the published events are ordered: InstallationStarted{r}
\* precedes every DownloadStarted, every DownloadCompleted{p} follows a
\* DownloadStarted{p}, every download event precedes InstallationCompleted, and
\* InstallationCompleted is published only by an install that returns Ok.
InstallEventsOrdered ==
    /\ \A i \in EventsOfType("DownloadStarted") :
          \E j \in 1..(i - 1) : published[j] = Event("InstallationStarted", call.ref)
    /\ \A i \in EventsOfType("DownloadCompleted") :
          \E j \in 1..(i - 1) : published[j] = Event("DownloadStarted", published[i].ref)
    /\ \A i \in EventsOfType("InstallationCompleted") :
          /\ \A j \in EventsOfType("InstallationStarted") \cup EventsOfType("DownloadStarted")
                        \cup EventsOfType("DownloadCompleted") : j < i
          /\ call.op = "install" => result.done /\ result.ok
          /\ call.op = "switch" => "install:ok" \in call.invoked

\* an install of app that downloaded app and libx and completed
InstallEventsOrderedWitness ==
    /\ call.op = "install"
    /\ result.done /\ result.ok
    /\ Cardinality(EventsOfType("DownloadCompleted")) = 2
    /\ EventsOfType("InstallationCompleted") # {}

OneActivePerName ==
    \A a, b \in installations :
        (a.active /\ b.active /\ a.package_id[1] = b.package_id[1])
            => a.package_id = b.package_id

\* C4: after install(r) returned Ok, info(r) is installed and the ledger holds exactly
\* one installation row of r.
InstallRecordsInstallation ==
    (call.op = "install" /\ result.done /\ result.ok) =>
        /\ info(call.ref).ok
        /\ is_installed(info(call.ref).val)
        /\ Cardinality({row \in installations : row.package_id = RefId(call.ref)}) = 1

InstallThenRemoveRestores ==
    (call.op = "remove" /\ call.follows /\ result.done /\ result.ok) => Snapshot = base

\* a remove after an install of the same package has succeeded
InstallThenRemoveRestoresWitness ==
    /\ call.op = "remove" /\ call.follows
    /\ result.done /\ result.ok
    /\ packages # {}

\* C7: with version v1 of the name installed and active and v2 available,
\* switch(name, v2) succeeds, leaves v1 not installed and v2 active, and returns
\* from_version = Some(v1), to_version = v2.
SwitchActivatesTarget ==
    \A v1 \in Versions :
        (/\ call.op = "switch" /\ result.done
         /\ call.active_versions = {v1} /\ call.installed_versions = {v1}
         /\ v1 # call.ref.version /\ call.available) =>
            /\ result.ok
            /\ result.val.from_version = <<v1>>
            /\ result.val.to_version = call.ref.version
            /\ ~is_installed(info(Ref(call.ref.name, v1)).val)
            /\ is_active(info(call.ref).val)

\* C8: a switch whose remove succeeded and whose install failed returns a SwitchResult
\* with the partial state in its warnings, after one install attempt and no reinstall.
SwitchRecordsPartialState ==
    (/\ call.op = "switch" /\ result.done
     /\ "remove:ok" \in call.invoked /\ "install:err" \in call.invoked) =>
        /\ result.ok
        /\ result.val.warnings # <<>>

\* C9: switch(name, v) with no installed package of that name fails with
\* PackageNotFound, publishes no event and calls neither remove nor install.
SwitchWithoutInstalledFails ==
    call.op = "switch" /\ call.installed_versions = {} =>
        /\ result.done /\ ~result.ok /\ result.err = "PackageNotFound"
        /\ published = <<>>
        /\ call.invoked = {}
        /\ pc = "idle"

\* a switch to a package the repository holds, none of that name installed
SwitchWithoutInstalledFailsWitness ==
    /\ call.op = "switch" /\ call.installed_versions = {} /\ call.available
    /\ result.done /\ result.err = "PackageNotFound"

\* C10: when the bytes served for a package with a declared checksum have another
\* digest, download_package fails with ChecksumMismatch and the cache holds no archive
\* of the package afterwards.
DownloadVerifiesChecksum ==
    (/\ dl.made /\ dl.served # "none"
     /\ Sha256(dl.served) # DeclaredChecksum(dl.ref.name, dl.ref.version).hash) =>
        /\ ~dl.res.ok
        /\ dl.res.err = "ChecksumMismatch"
        /\ ~dl.has_package_after

\* C13: an install that returns an error after InstallationStarted{r} was published
\* has published InstallationFailed{r} before it returns.
InstallFailurePublished ==
    (/\ call.op = "install" /\ result.done /\ ~result.ok
     /\ Event("InstallationStarted", call.ref) \in {published[i] : i \in 1..Len(published)}) =>
        Event("InstallationFailed", call.ref) \in {published[i] : i \in 1..Len(published)}

\* C15: a packages row is installed exactly when an installations row of its
\* package_id exists, and active exactly when one of those rows is active.
PackageFlagsMatchInstallations ==
    \A row \in packages :
        LET rows == {i \in installations : i.package_id = row.id}
        IN /\ row.installed <=> rows # {}
           /\ row.active <=> (\E i \in rows : i.active)

\* C16: in every packages row, and so in every Package that get_package returns,
\* active implies installed.
ActiveImpliesInstalled ==
    \A r \in PackageReference :
        info(r).ok => (is_active(info(r).val) => is_installed(info(r).val))

\* C14: when save_package or save_installation fails at any statement or at the
\* commit, the ledger holds exactly the rows it held before the call, the rows the
\* call deleted included.
SaveIsAtomic ==
    (tx.phase = "failed" /\ tx.op \in {"save_package", "save_installation"}) =>
        Ledger = tx.before

\* save_package of a package saved before fails after its dependency rows were deleted
SaveIsAtomicWitness ==
    /\ tx.phase = "failed" /\ tx.op = "save_package"
    /\ tx.step = 2
    /\ \E row \in tx.before[2] : row.package_id = tx.id
    /\ Ledger = tx.before

\* C17: when the process stops after extract_package began and before save_installation
\* committed, the ledger holds no installations, installed_files or symlinks row of
\* that installation.
CrashLeavesNoInstallationRow ==
    (tx.phase = "crashed" /\ tx.piped) =>
        /\ \A row \in installations : row.installation_id # tx.id
        /\ \A row \in installed_files : row.installation_id # tx.id
        /\ \A row \in symlinks : row.installation_id # tx.id

\* the process stopped inside save_installation, after the installation and file rows
\* were written
CrashLeavesNoInstallationRowWitness ==
    /\ tx.phase = "crashed" /\ tx.piped
    /\ tx.op = "save_installation"
    /\ tx.step >= 3
    /\ \A row \in installations : row.installation_id # tx.id

\* whether a ledger row records the path as an installation's file or symlink
OwnedByInstallation(path) ==
    \/ \E row \in installed_files : row.file_path = path
    \/ \E row \in symlinks : row.target_path = path

\* C11: a materialization of an install list with an entry whose target is under a
\* prohibited prefix fails with a validation error and leaves the file system as it was.
ProhibitedTargetRefused ==
    (mat.called /\ \E i \in 1..Len(mat.links) : is_system_directory(mat.links[i].target)) =>
        /\ ~mat.result.ok
        /\ mat.result.err = "ValidationError"
        /\ fs = mat.before

\* C12: a materialization refuses every install-list target that exists and that no
\* installation of the ledger owns: the call fails and what the path held is kept.
UnownedTargetRefused ==
    mat.called =>
        \A i \in 1..Len(mat.links) :
            LET target == mat.links[i].target
            IN (mat.before[target].kind # "absent" /\ ~OwnedByInstallation(target)) =>
                  /\ ~mat.result.ok
                  /\ fs[target] = mat.before[target]

\* the packages a resolution returned
Resolved == {resolution.result.val[i] : i \in 1..Len(resolution.result.val)}

\* C19: the list that install resolves is closed under dependencies: every dependency
\* of a resolved package (other than the installed package itself) is resolved too.
ResolutionIsTransitive ==
    (resolution.called /\ resolution.result.ok) =>
        \A p \in Resolved : \A d \in p.dependencies :
            d.name # resolution.ref.name =>
                \E q \in Resolved : q.name = d.name /\ matches_version(d, q.version)

\* C20: a resolution never returns two packages of one name at different versions, and
\* when two constraints on one name have no common version it fails with a
\* DependencyConflict.
ResolutionHasNoConflict ==
    resolution.called =>
        /\ resolution.result.ok =>
              \A p, q \in Resolved : p.name = q.name => p.version = q.version
        /\ (\E d, e \in resolution.package.dependencies :
                d.name = e.name /\ d.constraint \cap e.constraint = {}) =>
              (~resolution.result.ok /\ resolution.result.err = "DependencyConflict")

\* a task that has written the cache and is about to write it again
BetweenWrites(t) == tasks[t].pc = "put_package" /\ tasks[t].puts >= 1

\* C18: writers are serialized: no two install calls are at once between their first
\* and their last write to the cache.
WritersSerialized ==
    \A t, u \in Tasks : (BetweenWrites(t) /\ BetweenWrites(u)) => t = u

\* C21: find_best_package returns the local package when the local get_package
\* succeeds; it queries the remote repository exactly when the local error is
\* PackageNotFound, and then returns the remote reply; every other local error
\* is returned unchanged and the remote repository is not queried.
FindBestPackageFallsBackOnNotFound ==
    answer.of = "find_best_package" =>
        /\ answer.local.ok => answer.result = answer.local /\ ~answer.remote_queried
        /\ answer.remote_queried <=>
              (~answer.local.ok /\ answer.local.err = "PackageNotFound")
        /\ answer.remote_queried => answer.result = answer.remote
        /\ (~answer.local.ok /\ answer.local.err # "PackageNotFound") =>
              answer.result = answer.local /\ ~answer.remote_queried

\* the local repository failed with a database error while the remote one had
\* the package: the error came back and the remote repository was not asked
FindBestPackageFallsBackOnNotFoundWitness ==
    /\ answer.of = "find_best_package"
    /\ answer.local = Err("DatabaseError")
    /\ answer.remote.ok
    /\ answer.result = Err("DatabaseError")
    /\ ~answer.remote_queried

\* the packages a search result holds, by id
CountOf(list, id) == Cardinality({i \in 1..Len(list) : list[i].id = id})

IdsOf(list) == {list[i].id : i \in 1..Len(list)}

\* C22: when both searches succeed, search_all_packages returns a list sorted
\* by name that holds every PackageId of either result exactly once.
SearchUnionIsDeduplicated ==
    (answer.of = "search_all_packages" /\ answer.local.ok /\ answer.remote.ok) =>
        /\ answer.result.ok
        /\ \A i, j \in 1..Len(answer.result.val) :
              i < j => NameRank(answer.result.val[i].name)
                         <= NameRank(answer.result.val[j].name)
        /\ IdsOf(answer.result.val) = IdsOf(answer.local.val) \cup IdsOf(answer.remote.val)
        /\ \A id \in IdsOf(answer.result.val) : CountOf(answer.result.val, id) = 1

\* C23: a call of update_index whose port calls all succeed, on a server whose
\* index is well formed, fetches index.toml from the network, returns the index
\* parsed from the fetched bytes and leaves those bytes in the cache entry.
UpdateIndexRefetches ==
    (/\ remote.call.op = "update_index"
     /\ remote.call.invalidated
     /\ remote.call.ports = AllPortsSucceed
     /\ parse_index(remote.server_index).ok) =>
        /\ remote.call.gets = <<"index.toml">>
        /\ remote.call.result = parse_index(remote.server_index)
        /\ remote.index_entry = Some(remote.server_index)

\* the entry of a URL holds bytes that the parser of that URL rejects
Corrupted(entry, parse(_)) == entry.some /\ ~parse(entry.data).ok

\* C24: when the cached bytes of the index or of the metadata do not parse,
\* the server's content is well formed and the ports succeed, get_index and
\* get_package succeed and the entry holds the server's bytes; after such a
\* call no entry holds bytes that do not parse.
CorruptedEntryIsRefetched ==
    /\ (/\ remote.call.op = "get_index"
        /\ remote.call.ports = AllPortsSucceed
        /\ parse_index(remote.server_index).ok) =>
           /\ Corrupted(remote.call.index_before, parse_index) =>
                 /\ remote.call.result = parse_index(remote.server_index)
                 /\ remote.index_entry = Some(remote.server_index)
           /\ ~Corrupted(remote.index_entry, parse_index)
    /\ (/\ remote.call.op = "get_package"
        /\ remote.call.ports = AllPortsSucceed
        /\ parse_meta(remote.server_meta).ok) =>
           /\ Corrupted(remote.call.meta_before, parse_meta) =>
                 /\ remote.call.result.ok
                 /\ remote.meta_entry = Some(remote.server_meta)
           /\ ~Corrupted(remote.meta_entry, parse_meta)

\* C25: a create_symlinks_from_instlist call that follows a successful
\* create_symlinks_from_instlist call on the same package, with the install
\* list read and the parent directories created, succeeds and leaves the file
\* system as the first call left it.
MaterializationIsIdempotent ==
    (/\ mat.called
     /\ mat.op = "create_symlinks_from_instlist"
     /\ mat.prior = [called |-> TRUE, op |-> "create_symlinks_from_instlist",
                     package_id |-> mat.package_id, ok |-> TRUE]
     /\ mat.failed \in {"none", "write"}) =>
        /\ mat.result.ok
        /\ fs = mat.before

\* the install-list targets of the last call
TargetsOf(links) == {links[i].target : i \in 1..Len(links)}

\* C26: remove_installation_files removes, in install-list order, each target
\* that exists (by remove_symlink when it is a symlink, by remove otherwise)
\* and makes no call for a missing target; after it succeeds no install-list
\* target exists and every other path is as before; a second call that reads
\* the install list makes no removal, changes nothing and succeeds.
RemovalRemovesTargets ==
    (mat.called /\ mat.op = "remove_installation_files") =>
        /\ \A k \in 1..Len(mat.calls) :
              /\ mat.calls[k].path \in TargetsOf(mat.links)
              /\ exists(mat.before, mat.calls[k].path)
              /\ mat.calls[k].call = "remove_symlink"
                    <=> is_symlink(mat.before, mat.calls[k].path)
        /\ \A k, l \in 1..Len(mat.calls) :
              k < l => \E i, j \in 1..Len(mat.links) :
                          /\ i < j
                          /\ mat.links[i].target = mat.calls[k].path
                          /\ mat.links[j].target = mat.calls[l].path
        /\ mat.result.ok =>
              /\ \A target \in TargetsOf(mat.links) : ~exists(fs, target)
              /\ \A target \in TargetsOf(mat.links) :
                    exists(mat.before, target)
                       <=> \E k \in 1..Len(mat.calls) : mat.calls[k].path = target
        /\ \A path \in FsPaths \ TargetsOf(mat.links) : fs[path] = mat.before[path]
        /\ (/\ mat.prior = [called |-> TRUE, op |-> "remove_installation_files",
                            package_id |-> mat.package_id, ok |-> TRUE]
            /\ mat.failed # "read_file") =>
              /\ mat.result.ok
              /\ mat.calls = <<>>
              /\ fs = mat.before

\* a removal that succeeded after a materialization: it removed a symlink with
\* remove_symlink and the target is gone
RemovalRemovesTargetsWitness ==
    /\ mat.called
    /\ mat.op = "remove_installation_files"
    /\ mat.result.ok
    /\ mat.prior.called
    /\ mat.prior.op = "create_symlinks_from_instlist"
    /\ \E k \in 1..Len(mat.calls) :
          /\ mat.calls[k].call = "remove_symlink"
          /\ ~exists(fs, mat.calls[k].path)

\* meta.toml and instlist exist in the package directory and the source of
\* every effective line (not empty, not a comment, two fields) exists
StoreComplete(package_id) ==
    /\ store[package_id].meta
    /\ store[package_id].exists
    /\ \A i \in 1..Len(store[package_id].lines) :
          LET line == store[package_id].lines[i]
          IN  (line # <<>> /\ line[1] # "#" /\ Len(line) = 2) =>
                 line[1] \in store[package_id].sources

\* C30: verify_package_integrity returns true only if meta.toml and instlist
\* exist and every effective install-list source exists in the store; whenever
\* it returns a boolean, the boolean is true exactly in that case, and it
\* returns an error only when both files exist.
IntegrityIffStoreComplete ==
    (mat.called /\ mat.op = "verify_package_integrity") =>
        /\ mat.result.ok => (mat.result.val <=> StoreComplete(mat.package_id))
        /\ ~mat.result.ok =>
              store[mat.package_id].meta /\ store[mat.package_id].exists

\* a package with meta.toml, an instlist with a comment, an empty line, a
\* one-field line and one effective line, and the source of that line: true
IntegrityIffStoreCompleteWitness ==
    /\ mat.called
    /\ mat.op = "verify_package_integrity"
    /\ mat.result.ok
    /\ mat.result.val
    /\ Len(store[mat.package_id].lines) = 4
    /\ store[mat.package_id].sources = {"conf"}

\* the install_single_package calls of the install in progress or just ended
InstallLog == IF "log" \in DOMAIN frame THEN frame.log ELSE <<>>

\* C27: when install_single_package of the main package starts, the call for
\* every resolved dependency has returned Ok; after a call for a dependency
\* returned an error, no call for the main package is made.
DependenciesInstalledFirst ==
    /\ \A k \in 1..Len(InstallLog) :
          (InstallLog[k].event = "start" /\ InstallLog[k].role = "main") =>
              \A i \in 1..Len(frame.dependencies) :
                  \E j \in 1..(k - 1) :
                      InstallLog[j] = [event |-> "ok", role |-> "dependency",
                                       id |-> frame.dependencies[i].id]
    /\ (\E j \in 1..Len(InstallLog) :
           InstallLog[j].event = "err" /\ InstallLog[j].role = "dependency") =>
          ~\E k \in 1..Len(InstallLog) : InstallLog[k].role = "main"

\* an install of a package with two resolved dependencies that returned Ok:
\* the main package's call is the last of three
DependenciesInstalledFirstWitness ==
    /\ pc = "idle"
    /\ result.done /\ result.ok
    /\ Len(InstallLog) = 6
    /\ Len(frame.dependencies) = 2
    /\ InstallLog[5] = [event |-> "start", role |-> "main", id |-> frame.package.id]

\* the versions of the name's list that parse and satisfy the dependency
Satisfying(index, dep) ==
    UNION {{VersionParse(entry.versions[i]).val :
               i \in {j \in 1..Len(entry.versions) :
                        /\ VersionParse(entry.versions[j]).ok
                        /\ VersionParse(entry.versions[j]).val \in dep.constraint}} :
           entry \in {index.packages[k] :
                        k \in {l \in 1..Len(index.packages) :
                                 index.packages[l].name = dep.name}}}

\* C28: latest_satisfying returns the greatest, by major, minor and patch, of
\* the listed versions of the dependency's name that parse and satisfy its
\* constraint, in whatever order they are listed, and None when there is none
\* or the index has no entry of that name.
LatestSatisfyingIsMaximum ==
    answer.of = "latest_satisfying" =>
        LET candidates == Satisfying(answer.index, answer.dep)
        IN  IF candidates = {}
            THEN answer.result = None
            ELSE /\ answer.result.some
                 /\ VersionParse(answer.result.data).ok
                 /\ VersionParse(answer.result.data).val \in candidates
                 /\ \A v \in candidates :
                       ~VersionLess(VersionParse(answer.result.data).val, v)

\* libx lists 1.10.0, "latest" and 1.2.0 in that order and the dependency
\* asks for ^1: the answer is 1.10.0
LatestSatisfyingIsMaximumWitness ==
    /\ answer.of = "latest_satisfying"
    /\ answer.dep.name = "libx"
    /\ answer.index.packages[2].versions =
          <<<<"1", ".", "1", "0", ".", "0">>, <<"l", "a", "t", "e", "s", "t">>,
            <<"1", ".", "2", ".", "0">>>>
    /\ Cardinality(answer.dep.constraint) = 3
    /\ answer.result = Some(<<"1", ".", "1", "0", ".", "0">>)

\* C29: for every PackageReference r, try_from(r.to_string()) returns Ok(r).
ReferenceRoundTrips ==
    answer.of = "try_from" => answer.result.ok /\ answer.result.val = answer.ref

\* C33: in the download step of install the main package is processed last:
\* whenever the package at hand is the main package, it is the last of the list.
MainPackageDownloadedLast ==
    pc = "i_download" =>
        (frame.all_packages[frame.next].id = frame.package.id
            => frame.next = Len(frame.all_packages))

\* C35: a switch of a name that has an installed version to a target that
\* get_package does not find returns PackageNotFound, publishes no event and
\* leaves the ledger and the installed paths as they were.
SwitchFetchesTargetFirst ==
    (call.op = "switch" /\ ~call.available /\ call.installed_versions # {}) =>
        /\ pc = "idle"
        /\ result.done
        /\ ~result.ok
        /\ result.err = "PackageNotFound"
        /\ published = <<>>
        /\ Snapshot = snap

\* app 1 is installed and app 2 is not in the repository: switch(app, 2) failed
SwitchFetchesTargetFirstWitness ==
    /\ call.op = "switch"
    /\ call.ref = Ref("app", 2)
    /\ ~call.available
    /\ call.installed_versions = {1}
    /\ result.done
    /\ result.err = "PackageNotFound"


\* C32: an installation made by InstallationFactory::create is inactive and has
\* no installed files and no symlinks, and validate_activation returns an error
\* for every installation whose installed_files is empty, also when it has symlinks.
EmptyInstallationIsNotActivated ==
    answer.of = "validate_activation" =>
        /\ ~answer.created.active
        /\ answer.created.installed_files = {}
        /\ answer.created.symlinks = <<>>
        /\ (answer.installation.installed_files = {} => ~answer.result.ok)

EmptyInstallationIsNotActivatedWitness ==
    /\ answer.of = "validate_activation"
    /\ answer.installation.installed_files = {}
    /\ Len(answer.installation.symlinks) = 2
    /\ answer.result = Err("ValidationError")


\* C36: when materialization of an install list fails at its k-th entry, what was
\* created for entries 1..k-1 is removed before the failure is reported: no
\* target of those entries holds the link or copy of the failed call, unless it
\* held it before the call.
FailedMaterializationLeavesNoLink ==
    (mat.called /\ ~mat.result.ok) =>
        \A i \in 1..mat.done :
            LET target == mat.links[i].target
            IN  \/ fs[target].source # mat.links[i].source
                \/ fs[target] = mat.before[target]


\* v is the greatest of the versions that the strings of the list parse to
SemverMaximal(v, versions) ==
    /\ \E i \in 1..Len(versions) :
          VersionParse(versions[i]).ok /\ VersionParse(versions[i]).val = v
    /\ \A i \in 1..Len(versions) :
          VersionParse(versions[i]).ok => ~VersionLess(v, VersionParse(versions[i]).val)

\* C37: repository versions are compared by semantic version ordering: for an
\* entry with a version, get_latest_version of the remote and of the local
\* repository returns the semver-maximal version of the entry, and so is the
\* version search_packages chooses, whatever the order of the strings.
LatestIsSemverMaximal ==
    (/\ answer.of \in {"remote_get_latest_version", "local_get_latest_version"}
     /\ answer.package_name = "libx"
     /\ ParsedOf(answer.versions) # <<>>) =>
        /\ answer.result.ok
        /\ VersionParse(answer.result.val).ok
        /\ SemverMaximal(VersionParse(answer.result.val).val, answer.versions)
        /\ answer.of = "remote_get_latest_version" =>
              /\ answer.searched.ok
              /\ answer.searched.val.some
              /\ SemverMaximal(answer.searched.val.data.version, answer.versions)


\* C39: for every Target (os, arch), a known os with a Custom arch and a Custom
\* os with a known arch included, strings_to_target(target_to_strings(t)) = t.
TargetRoundTrips ==
    answer.of = "strings_to_target" => answer.result = answer.target


\* C38: save_installation(i) followed by get_installation(i.id) returns an
\* installation with the same id, package_id and active flag, the same installed
\* files with the same file types and permissions, and the same symlinks in the
\* same order; saving i twice leaves the same rows as saving it once.
SavedInstallationIsReadBack ==
    answer.of = "get_installation" =>
        /\ answer.result.ok
        /\ answer.result.val = Some(answer.installation)
        /\ answer.rows_twice = answer.rows


\* the positions of the log at which the call op is made for the package r
CallsOf(log, r, op) == {k \in 1..Len(log) : log[k].ref = r /\ log[k].op = op}

\* C34: for a package of an install whose archive is in the cache, install
\* publishes no DownloadStarted and no DownloadCompleted and calls neither
\* repository.download_package nor cache.put_package; for every other package
\* whose download is completed, put_package is called exactly once, between
\* DownloadStarted and DownloadCompleted.
CacheHitSkipsDownload ==
    answer.of = "download_packages" =>
        \A i \in 1..Len(answer.all_packages) :
            LET r == from_package(answer.all_packages[i])
                log == answer.log
            IN  IF r \in answer.cached
                THEN \A op \in {"publish DownloadStarted", "publish DownloadCompleted",
                                "repository.download_package", "cache.put_package"} :
                        CallsOf(log, r, op) = {}
                ELSE CallsOf(log, r, "publish DownloadCompleted") # {} =>
                        /\ Cardinality(CallsOf(log, r, "cache.put_package")) = 1
                        /\ \A p \in CallsOf(log, r, "cache.put_package") :
                              /\ \E s \in CallsOf(log, r, "publish DownloadStarted") : s < p
                              /\ \E c \in CallsOf(log, r, "publish DownloadCompleted") : p < c


\* C31: the directory extract_package unpacks a package into is the directory
\* LocalPackagesRepository::get_package reads meta.toml from: a package extracted
\* into the store is found by a following local get_package of the same reference.
ExtractedPackageIsFound ==
    (answer.of = "local_get_package" /\ answer.extracted) => answer.result.ok

\* C40: a package returned by get_package(r) of the local or of the remote
\* repository has id = r.id(): its name and version are those of r, also when
\* the meta.toml read for r declares another name or version.
GetPackageKeepsReference ==
    (answer.of \in {"local_get_package", "remote_get_package"} /\ answer.result.ok) =>
        /\ answer.result.val.name = answer.ref.name
        /\ answer.result.val.version = answer.ref.version
        /\ answer.result.val.id = answer.id

====
